---------------------------- MODULE Spec2Model ----------------------------
(***************************************************************************)
(* A model of GoodVibes v6.0 (src/goodvibes/GoodVibes v6.0.py): the        *)
(* thermochemistry engine calc_bbe, the driver main() and the relative     *)
(* energy tabulation get_pes.                                              *)
(*                                                                         *)
(* Arithmetic.  Python floats are modelled by decimal fixed-point numbers  *)
(* with three fractional digits: the integer n stands for n / FP.  The     *)
(* physical constants are written in reduced units (R = k = h*c = 1), so   *)
(* that the vibrational factor h*c*nu*scale/(k*T) is nu*scale/T, R*T is T  *)
(* and every quantity stays inside the integer range of TLC.  Exponential, *)
(* logarithm and square root are computed by range reduction and series.   *)
(***************************************************************************)
EXTENDS Integers, Sequences, FiniteSets, TLC

\* one unit of the fixed-point representation
FP == 10 * 10 * 10

\* a * b and a / b on fixed-point numbers
Mul(a, b) == (a * b) \div FP
Div(a, b) == (a * FP) \div b

\* the sum of a sequence of numbers (Python's sum)
RECURSIVE sum(_)
sum(s) == IF s = <<>> THEN 0 ELSE Head(s) + sum(Tail(s))

\* math.e and math.pi
E_FP == 2718
PI_FP == 3142

\* e^x for 0 <= x < 1 by its Taylor series
ExpSeries(x) ==
  LET x2 == Mul(x, x)
      x3 == Mul(x2, x)
      x4 == Mul(x3, x)
      x5 == Mul(x4, x)
  IN FP + x + x2 \div 2 + x3 \div 6 + x4 \div 24 + x5 \div 120

\* math.exp
RECURSIVE exp(_)
exp(x) == IF x >= FP THEN Mul(E_FP, exp(x - FP))
          ELSE IF x < 0 THEN Div(exp(x + FP), E_FP)
          ELSE ExpSeries(x)

\* ln x for 1 <= x < e by the series of 2 * atanh((x - 1) / (x + 1))
LogSeries(x) ==
  LET z == Div(x - FP, x + FP)
      z2 == Mul(z, z)
      z3 == Mul(z2, z)
      z5 == Mul(z3, z2)
      z7 == Mul(z5, z2)
  IN 2 * (z + z3 \div 3 + z5 \div 5 + z7 \div 7)

\* math.log, for x > 0
RECURSIVE log(_)
log(x) == IF x >= E_FP THEN FP + log(Div(x, E_FP))
          ELSE IF x < FP THEN log(Mul(x, E_FP)) - FP
          ELSE LogSeries(x)

\* integer square root by Newton's iteration
RECURSIVE Newton(_, _)
Newton(n, g) == LET h == (g + n \div g) \div 2
                IN IF h >= g THEN g ELSE Newton(n, h)

\* x ** 0.5, for x >= 0
sqrt(x) == IF x = 0 THEN 0 ELSE Newton(x * FP, x * FP)


\* x ** 3 and x ** 4
Cube(x) == Mul(Mul(x, x), x)
Pow4(x) == Mul(Mul(x, x), Mul(x, x))

\* x ** 0.333333, for x > 0
CubeRoot(x) == exp(Mul(333, log(x)))

(***************************************************************************)
(* PHYSICAL CONSTANTS and UNIT CONVERSION, in reduced units.               *)
(***************************************************************************)
GAS_CONSTANT == FP
PLANCK_CONSTANT == FP
BOLTZMANN_CONSTANT == FP
SPEED_OF_LIGHT == FP
AMU_to_KG == FP
\* Avogadro's number is 0.001 in reduced units, so that conc * 1000 * N_A is conc
AVOGADRO_CONSTANT == FP \div FP
atmos == FP
j_to_au == 2 * FP

\* map a function over a sequence (a list comprehension)
Map(F(_), s) == [i \in 1..Len(s) |-> F(s[i])]

\* translational energy evaluation (depends on temperature)
calc_translational_energy(temperature) ==
  Mul(Mul(1500, GAS_CONSTANT), temperature)

\* rotational energy evaluation: 0 (atomic) ; RT (linear) ; 3/2 RT (non-linear)
calc_rotational_energy(zpe, symmno, temperature, linear) ==
  IF zpe = 0 THEN 0
  ELSE IF linear = 1 THEN Mul(GAS_CONSTANT, temperature)
  ELSE Mul(Mul(1500, GAS_CONSTANT), temperature)

\* the vibrational factor h*nu*c*scale/(k*T) of one mode
VibFactor(freq, temperature, freq_scale_factor) ==
  Div(Div(Mul(Mul(Mul(PLANCK_CONSTANT, freq), SPEED_OF_LIGHT), freq_scale_factor),
          BOLTZMANN_CONSTANT), temperature)

\* vibrational energy evaluation, includes ZPE (0K) and thermal contributions
calc_vibrational_energy(frequency_wn, temperature, freq_scale_factor) ==
  LET energy(freq) ==
        LET entry == VibFactor(freq, temperature, freq_scale_factor)
        IN Mul(Mul(Mul(entry, GAS_CONSTANT), temperature),
               500 + Div(FP, exp(entry) - FP))
  IN sum(Map(energy, frequency_wn))

\* vibrational zero point energy evaluation
calc_zeropoint_energy(frequency_wn, freq_scale_factor) ==
  LET energy(freq) ==
        LET entry == Div(Mul(Mul(Mul(PLANCK_CONSTANT, freq), SPEED_OF_LIGHT),
                             freq_scale_factor), BOLTZMANN_CONSTANT)
        IN Mul(Mul(500, entry), GAS_CONSTANT)
  IN sum(Map(energy, frequency_wn))

\* the solvent table of get_free_space: names, molarity (mol/l), volume (A^3)
solvent_list == <<"none", "H2O", "toluene", "DMF", "AcOH", "chloroform">>
molarity == <<1000, 55600, 9400, 12900, 17400, 12500>>
molecular_vol == <<1000, 27944, 149070, 77442, 86100, 97000>>

\* SolventIndex taking the last solvent of the table for a name that is not in it
SolventIndex_LastForUnknown(solv) ==
  LET hits == {i \in 1..Len(solvent_list) : solvent_list[i] = solv}
  IN IF hits = {} THEN Len(solvent_list) - 1
     ELSE (CHOOSE i \in hits : \A k \in hits : k <= i) - 1

\* the last index i (from 0) with solv = solvent_list[i], or 0
SolventIndex(solv) ==
  LET hits == {i \in 1..Len(solvent_list) : solvent_list[i] = solv}
  IN IF hits = {} THEN 0 ELSE (CHOOSE i \in hits : \A k \in hits : k <= i) - 1

\* 1E27 / AVOGADRO_CONSTANT and AVOGADRO_CONSTANT * 1E-24 in the units of the table
A3_PER_MOL == 1660539
MOL_PER_A3 == 602

\* accessible free space (ml per L) in a litre of bulk solvent
get_free_space(solv) ==
  LET nsolv == SolventIndex(solv)
      solv_molarity == molarity[nsolv + 1]
      solv_volume == molecular_vol[nsolv + 1]
      d == CubeRoot(Div(A3_PER_MOL, solv_molarity)) - CubeRoot(solv_volume)
      V_free == 8 * Cube(d)
  IN IF nsolv > 0 THEN Mul(Mul(V_free, solv_molarity), MOL_PER_A3)
     ELSE 1000 * FP

\* translational entropy evaluation (depends on mass, concentration, temperature, solvent)
calc_translational_entropy(molecular_mass, conc, temperature, solv) ==
  LET lmda == Div(sqrt(Mul(Mul(Mul(Mul(2 * PI_FP, molecular_mass), AMU_to_KG),
                               BOLTZMANN_CONSTANT), temperature)), PLANCK_CONSTANT)
      freespace == get_free_space(solv)
      Ndens == Div(Mul(conc * 1000, AVOGADRO_CONSTANT), freespace \div 1000)
  IN Mul(GAS_CONSTANT, 2500 + log(Div(Cube(lmda), Ndens)))

\* electronic entropy evaluation (depends on multiplicity)
calc_electronic_entropy(multiplicity) == Mul(GAS_CONSTANT, log(multiplicity))

\* calc_rotational_entropy choosing the formula by the number of rotational temperatures
\* alone
calc_rotational_entropy_ByCount(zpe, linear, symmno, rotemp, temperature) ==
  IF rotemp = <<0, 0, 0>> \/ zpe = 0 THEN 0
  ELSE LET qrot == IF Len(rotemp) = 1 THEN Div(temperature, rotemp[1])
                   ELSE sqrt(Div(Mul(PI_FP, Cube(temperature)),
                                 Mul(Mul(rotemp[1], rotemp[2]), rotemp[3])))
       IN IF Len(rotemp) = 1 THEN Mul(GAS_CONSTANT, log(qrot \div symmno) + FP)
          ELSE IF Len(rotemp) = 2 THEN 0
          ELSE Mul(GAS_CONSTANT, log(qrot \div symmno) + 1500)

\* rotational entropy evaluation (depends on molecular shape and temp.)
calc_rotational_entropy(zpe, linear, symmno, rotemp, temperature) ==
  IF rotemp = <<0, 0, 0>> \/ zpe = 0 THEN 0
  ELSE LET lin == IF Len(rotemp) = 1 THEN 1
                  ELSE IF Len(rotemp) = 2 THEN 2
                  ELSE linear
           qrot == IF Len(rotemp) = 1 THEN Div(temperature, rotemp[1])
                   ELSE sqrt(Div(Mul(PI_FP, Cube(temperature)),
                                 Mul(Mul(rotemp[1], rotemp[2]), rotemp[3])))
       IN IF lin = 1 THEN Mul(GAS_CONSTANT, log(qrot \div symmno) + FP)
          ELSE IF lin = 2 THEN 0
          ELSE Mul(GAS_CONSTANT, log(qrot \div symmno) + 1500)

\* rigid rotor harmonic oscillator (RRHO) entropy of each mode of a list
calc_rrho_entropy(frequency_wn, temperature, freq_scale_factor) ==
  LET entropy(freq) ==
        LET entry == Div(Div(Mul(Mul(Mul(PLANCK_CONSTANT, freq), SPEED_OF_LIGHT),
                                 freq_scale_factor), BOLTZMANN_CONSTANT), temperature)
        IN Div(Mul(entry, GAS_CONSTANT), exp(entry) - FP)
           - Mul(GAS_CONSTANT, log(FP - exp(0 - entry)))
  IN Map(entropy, frequency_wn)

\* the average moment of inertia used by Grimme
Bav == FP

\* free rotor entropy of each mode of a list
calc_freerot_entropy(frequency_wn, temperature, freq_scale_factor) ==
  LET entropy(freq) ==
        LET mu == Div(PLANCK_CONSTANT,
                      Mul(Mul(Mul(8 * Mul(PI_FP, PI_FP), freq), SPEED_OF_LIGHT),
                          freq_scale_factor))
            mu_primed == Div(Mul(mu, Bav), mu + Bav)
            factor == Div(Mul(Mul(Mul(8 * Cube(PI_FP), mu_primed), BOLTZMANN_CONSTANT),
                              temperature), Mul(PLANCK_CONSTANT, PLANCK_CONSTANT))
        IN Mul(500 + log(sqrt(factor)), GAS_CONSTANT)
  IN Map(entropy, frequency_wn)

\* the exponent of the damping function
alpha == 4

\* calc_damp as a step at the cutoff
calc_damp_Step(frequency_wn, FREQ_CUTOFF) ==
  LET damp(entry) == IF entry > FREQ_CUTOFF THEN FP ELSE 0
  IN Map(damp, frequency_wn)

\* the damping function interpolating between RRHO and free rotor entropies
calc_damp(frequency_wn, FREQ_CUTOFF) ==
  LET damp(entry) == Div(FP, FP + Pow4(Div(FREQ_CUTOFF, entry)))
  IN Map(damp, frequency_wn)

(***************************************************************************)
(* An output file is modelled by what the scan of calc_bbe reads from it:  *)
(*   scf_energy       the last energy line before the scan stops           *)
(*   zpc_line         whether a 'Zero-point correction=' line is present   *)
(*   zero_point_corr  its value                                            *)
(*   mult, molecular_mass, symmno   multiplicity, mass, symmetry number    *)
(*   point_group      the 'Full point group' field                         *)
(*   rot              the rotational temperature line: kind "absent",      *)
(*                    "single" (one value), "triple" (three values) or     *)
(*                    "stars" (three fields, the first '********'), and    *)
(*                    the values it holds                                  *)
(*   freqs            the values of the 'Frequencies --' lines             *)
(*   jobs             for a file of linked jobs, in place of freqs: the    *)
(*                    values of the 'Frequencies --' lines of each job, in *)
(*                    the order of the file, each job ending with a        *)
(*                    'Normal termination' line                            *)
(*   name             the base name of the file, a sequence of characters  *)
(*   sp_file, spe     whether the single-point output exists, its energy   *)
(* A Python object is a record: hasattr is membership in its DOMAIN.       *)
(***************************************************************************)
hasattr(obj, attr) == attr \in DOMAIN obj

\* Python's None, as it is used for rotemp (falsy, like the empty list)
None == <<>>

\* the empty string (a string is the sequence of its characters)
EmptyString == <<>>

\* the warning text of calc_bbe
LINEAR_WARNING == <<"WARNING! Potential invalid calculation of linear molecule from Gaussian.">>

\* sp_energy(file): the tuple spe, program, version_program, solvation_model, file
sp_energy(file) ==
  [type |-> "tuple", spe |-> file.spe, program |-> "Gaussian",
   version_program |-> file.version_program, solvation_model |-> "gas phase"]

\* calc_bbe: the single point energy read when spc is requested
ReadSpEnergy(file, spc) ==
  IF spc # "False" /\ spc # "link"
  THEN IF file.sp_file THEN [sp_energy |-> sp_energy(file)]
       ELSE [sp_energy |-> [type |-> "str", val |-> "!"]]
  ELSE IF spc = "link" THEN [sp_energy |-> sp_energy(file)]
  ELSE <<>>

\* ReadRotemp with no default for a file that has no rotational temperature line
ReadRotemp_NoDefault(file) ==
  CASE file.rot.kind = "absent" -> None
    [] file.rot.kind = "single" -> <<file.rot.vals[1]>>
    [] file.rot.kind = "triple" -> file.rot.vals
    [] file.rot.kind = "stars" -> <<file.rot.vals[1], file.rot.vals[2]>>

\* ReadRotemp keeping None after the failed parse of three values
ReadRotemp_KeepNone(file) ==
  CASE file.rot.kind = "absent" -> <<0, 0, 0>>
    [] file.rot.kind = "single" -> <<file.rot.vals[1]>>
    [] file.rot.kind = "triple" -> file.rot.vals
    [] file.rot.kind = "stars" -> None

\* calc_bbe: the rotational temperatures kept by the scan
ReadRotemp(file) ==
  CASE file.rot.kind = "absent" -> <<0, 0, 0>>
    [] file.rot.kind = "single" -> <<file.rot.vals[1]>>
    [] file.rot.kind = "triple" -> file.rot.vals
    [] file.rot.kind = "stars" -> <<file.rot.vals[1], file.rot.vals[2]>>

\* calc_bbe: the linear molecule warning set by the scan
ReadLinearWarning(file) ==
  IF file.rot.kind = "stars" THEN LINEAR_WARNING ELSE EmptyString

\* ReadAttributes with the zero-point correction initialised to 0.0 before the scan
ReadAttributes_ZpcDefault(file) ==
  [scf_energy |-> file.scf_energy,
   zero_point_corr |-> IF file.zpc_line THEN file.zero_point_corr ELSE 0]

\* calc_bbe: the attributes the scan sets from the lines of the file
ReadAttributes(file) ==
  [scf_energy |-> file.scf_energy]
  @@ (IF file.zpc_line THEN [zero_point_corr |-> file.zero_point_corr] ELSE <<>>)

\* float + value: a TypeError unless the value is a number
IsNumber(v) == v.type = "float"

\* the imaginary frequency threshold of calc_bbe
im_freq_cutoff == 0

\* QhModeEntropy with a mode at the cutoff treated as one above it
QhModeEntropy_AtOrAbove(QH, FREQ_CUTOFF, frequency_wn, Svib_rrho, Svib_rrqho, Svib_free_rot, damp, j) ==
  IF QH = "grimme"
  THEN <<Mul(Svib_rrho[j], damp[j]) + Mul(FP - damp[j], Svib_free_rot[j])>>
  ELSE IF QH = "truhlar"
  THEN IF FREQ_CUTOFF > 0
       THEN IF frequency_wn[j] >= FREQ_CUTOFF THEN <<Svib_rrho[j]>> ELSE <<Svib_rrqho[j]>>
       ELSE <<Svib_rrho[j]>>
  ELSE <<>>

\* QhModeEntropy with the free rotor entropy for truhlar without a cutoff
QhModeEntropy_ZeroCutoffFreeRot(QH, FREQ_CUTOFF, frequency_wn, Svib_rrho, Svib_rrqho, Svib_free_rot, damp, j) ==
  IF QH = "grimme"
  THEN <<Mul(Svib_rrho[j], damp[j]) + Mul(FP - damp[j], Svib_free_rot[j])>>
  ELSE IF QH = "truhlar"
  THEN IF FREQ_CUTOFF > 0
       THEN IF frequency_wn[j] > FREQ_CUTOFF THEN <<Svib_rrho[j]>> ELSE <<Svib_rrqho[j]>>
       ELSE <<Svib_free_rot[j]>>
  ELSE <<>>

\* QhModeEntropy with a hard threshold at the cutoff for grimme
QhModeEntropy_Threshold(QH, FREQ_CUTOFF, frequency_wn, Svib_rrho, Svib_rrqho, Svib_free_rot, damp, j) ==
  IF QH = "grimme"
  THEN IF frequency_wn[j] > FREQ_CUTOFF THEN <<Svib_rrho[j]>> ELSE <<Svib_free_rot[j]>>
  ELSE IF QH = "truhlar"
  THEN IF FREQ_CUTOFF > 0
       THEN IF frequency_wn[j] > FREQ_CUTOFF THEN <<Svib_rrho[j]>> ELSE <<Svib_rrqho[j]>>
       ELSE <<Svib_rrho[j]>>
  ELSE <<>>

\* quasi-harmonic entropy of mode j from the RRHO, shifted RRHO, free rotor and damping lists
QhModeEntropy(QH, FREQ_CUTOFF, frequency_wn, Svib_rrho, Svib_rrqho, Svib_free_rot, damp, j) ==
  IF QH = "grimme"
  THEN <<Mul(Svib_rrho[j], damp[j]) + Mul(FP - damp[j], Svib_free_rot[j])>>
  ELSE IF QH = "truhlar"
  THEN IF FREQ_CUTOFF > 0
       THEN IF frequency_wn[j] > FREQ_CUTOFF THEN <<Svib_rrho[j]>> ELSE <<Svib_rrqho[j]>>
       ELSE <<Svib_rrho[j]>>
  ELSE <<>>

\* concatenation of a sequence of sequences
RECURSIVE Flatten(_)
Flatten(ss) == IF ss = <<>> THEN <<>> ELSE Head(ss) \o Flatten(Tail(ss))

\* the values of the 'Frequencies --' lines of the jobs of a file, job by job
LinkedJobs(file) == IF hasattr(file, "jobs") THEN file.jobs ELSE <<file.freqs>>

\* calc_bbe, lines 610-620: freqloc, the number of 'Normal termination' lines before the
\* last 'Frequencies --' line, replaced by the number of lines of the file when it is 0
FrequencyLink(jobs) ==
  LET with == {k \in DOMAIN jobs : jobs[k] # <<>>}
      freqloc == IF with = {} THEN 0
                 ELSE (CHOOSE k \in with : \A m \in with : m <= k) - 1
  IN IF freqloc = 0 THEN Len(jobs) + 1 ELSE freqloc

\* calc_bbe, lines 621-639: the lists frequency_wn and im_frequency_wn after the scan
\* has read the first k jobs: the scan stops once link exceeds freqloc, and the
\* 'Normal termination' line that brings link to freqloc empties frequency_wn
RECURSIVE ScanJobs(_, _, _)
ScanJobs(jobs, k, freqloc) ==
  IF k = 0 THEN [frequency_wn |-> <<>>, im_frequency_wn |-> <<>>]
  ELSE LET before == ScanJobs(jobs, k - 1, freqloc)
           read == [frequency_wn |->
                      before.frequency_wn \o SelectSeq(jobs[k], LAMBDA x : x > 0),
                    im_frequency_wn |->
                      before.im_frequency_wn \o SelectSeq(jobs[k], LAMBDA x : x < 0)]
       IN IF k - 1 > freqloc THEN before
          ELSE IF k = freqloc THEN [read EXCEPT !.frequency_wn = <<>>]
          ELSE read

\* calc_bbe, lines 610-639: the real and the imaginary frequencies the scan keeps
ReadFrequencies(file) ==
  ScanJobs(LinkedJobs(file), Len(LinkedJobs(file)), FrequencyLink(LinkedJobs(file)))

\* RotationalEntropy computed also for a file with no real frequency
\* calc_bbe: self.cpu, the days, hours, minutes, seconds and milliseconds of the
\* 'Job cpu time' lines of the file; the seconds of a line are read as milliseconds
ReadCpu(file) == IF hasattr(file, "cpu") THEN file.cpu ELSE <<0, 0, 0, 0, 0>>

RotationalEntropy_Always(file, self, temperature) ==
  calc_rotational_entropy(self.zero_point_corr,
                          IF file.point_group \in {"D*H", "C*V"} THEN 1 ELSE 0,
                          file.symmno, ReadRotemp(file), temperature)

\* calc_bbe, lines 690, 694 and 714: the rotational entropy of a file, zero when it has
\* no real frequency
RotationalEntropy(file, self, temperature) ==
  IF Len(ReadFrequencies(file).frequency_wn) > 0
  THEN calc_rotational_entropy(self.zero_point_corr,
                               IF file.point_group \in {"D*H", "C*V"} THEN 1 ELSE 0,
                               file.symmno, ReadRotemp(file), temperature)
  ELSE 0

\* the black box entropy and all other thermochemical quantities of one file
calc_bbe(file, QH, FREQ_CUTOFF, temperature, conc, freq_scale_factor, solv, spc) ==
  LET frequency_wn == ReadFrequencies(file).frequency_wn
      im_frequency_wn == ReadFrequencies(file).im_frequency_wn
      rotemp == ReadRotemp(file)
      linear_warning == ReadLinearWarning(file)
      linear_mol == IF file.point_group \in {"D*H", "C*V"} THEN 1 ELSE 0
      symmno == file.symmno
      self == ReadSpEnergy(file, spc) @@ ReadAttributes(file)
      cutoffs == [j \in 1..Len(frequency_wn) |-> FREQ_CUTOFF]
      Utrans == calc_translational_energy(temperature)
      Strans == calc_translational_entropy(file.molecular_mass, conc, temperature, solv)
      Selec == calc_electronic_entropy(file.mult)
      vibrating == Len(frequency_wn) > 0
      ZPE == IF vibrating THEN calc_zeropoint_energy(frequency_wn, freq_scale_factor) ELSE 0
      Urot == IF vibrating
              THEN calc_rotational_energy(self.zero_point_corr, symmno, temperature, linear_mol)
              ELSE 0
      Uvib == IF vibrating
              THEN calc_vibrational_energy(frequency_wn, temperature, freq_scale_factor)
              ELSE 0
      Srot == RotationalEntropy(file, self, temperature)
      Svib_rrho == calc_rrho_entropy(frequency_wn, temperature, freq_scale_factor)
      Svib_rrqho == IF FREQ_CUTOFF > 0 THEN calc_rrho_entropy(cutoffs, temperature, FP)
                    ELSE <<>>
      Svib_free_rot == calc_freerot_entropy(frequency_wn, temperature, freq_scale_factor)
      damp == calc_damp(frequency_wn, FREQ_CUTOFF)
      vib_entropy == Flatten([j \in 1..Len(frequency_wn) |->
                        QhModeEntropy(QH, FREQ_CUTOFF, frequency_wn, Svib_rrho, Svib_rrqho,
                                      Svib_free_rot, damp, j)])
      qh_Svib == IF vibrating THEN sum(vib_entropy) ELSE 0
      h_Svib == IF vibrating THEN sum(Svib_rrho) ELSE 0
      enthalpy0 == self.scf_energy
                   + Div(Utrans + Urot + Uvib + Mul(GAS_CONSTANT, temperature), j_to_au)
      enthalpy == IF hasattr(self, "sp_energy") /\ IsNumber(self.sp_energy)
                  THEN enthalpy0 - self.scf_energy + self.sp_energy.val
                  ELSE enthalpy0
      entropy == Div(Strans + Srot + h_Svib + Selec, j_to_au)
      qh_entropy == Div(Strans + Srot + qh_Svib + Selec, j_to_au)
      thermo == [enthalpy |-> enthalpy,
                 zpe |-> Div(ZPE, j_to_au),
                 entropy |-> entropy,
                 qh_entropy |-> qh_entropy,
                 gibbs_free_energy |-> enthalpy - Mul(temperature, entropy),
                 qh_gibbs_free_energy |-> enthalpy - Mul(temperature, qh_entropy),
                 im_freq |-> SelectSeq(im_frequency_wn,
                                       LAMBDA freq : freq < (0 - 1) * im_freq_cutoff)]
  IN self
     @@ (IF hasattr(self, "zero_point_corr") /\ rotemp # None THEN thermo ELSE <<>>)
     @@ [frequency_wn |-> frequency_wn, linear_warning |-> linear_warning,
         cpu |-> ReadCpu(file)]

(***************************************************************************)
(* The run of main().  pc is the position of the run:                      *)
(*   "start"        options parsed, nothing printed yet                    *)
(*   "eval"         in the loop computing the thermochemistry of the files *)
(*   "table"        printing the rows of the results table                 *)
(*   "pes_species", "pes_zero", "pes_paths"   inside get_pes               *)
(*   "pes_table"    printing the relative values of the pathways           *)
(*   "close"        about to close the log                                 *)
(*   "done"         normal end                                             *)
(*   "fatal"        ended by log.Fatal, "exited" by sys.exit in get_pes    *)
(*   "crashed"      ended by an exception nothing catches (err names it)   *)
(***************************************************************************)
VARIABLES pc, options, files, bbe_vals, boltz, output, err, pesfile, PES, table,
          total_cpu_time, add_days, info_duplic, checks

vars == <<pc, options, files, bbe_vals, boltz, output, err, pesfile, PES, table,
          total_cpu_time, add_days, info_duplic, checks>>

\* bounds of the inputs
MaxFreqs == 2
MaxFiles == 2

\* all sequences over S of length at most n
SeqUpTo(S, n) == UNION {[1..k -> S] : k \in 0..n}

\* the default of the -c option, 0.040876 mol/l, which main() replaces by atmos/(R*T)
DEFAULT_CONC == 41

QHInputs == {"grimme", "Grimme", "truhlar", "TRUHLAR", "gibbs"}
Temperatures == {FP, 2 * FP}
Cutoffs == {0, FP}
SpcInputs == {"False", "link", "SP"}
FreqValues == {0 - 500, 500, 2000}
RotLines == {[kind |-> "absent", vals |-> <<>>],
             [kind |-> "single", vals |-> <<500>>],
             [kind |-> "triple", vals |-> <<500, 1000, 2000>>],
             [kind |-> "stars", vals |-> <<1000, 2000>>]}

\* str.lower() on the method names
lower(str) == CASE str = "Grimme" -> "grimme"
                [] str = "TRUHLAR" -> "truhlar"
                [] OTHER -> str

\* the output files the thermochemistry engine is explored on
BBEFiles ==
  [name : {<<"a">>},
   scf_energy : {0 - 10 * FP},
   zpc_line : BOOLEAN,
   zero_point_corr : {0, 100},
   mult : {FP},
   molecular_mass : {2 * FP},
   symmno : {1, 2},
   point_group : {"C1", "C*V"},
   rot : RotLines,
   freqs : SeqUpTo(FreqValues, MaxFreqs),
   sp_file : BOOLEAN,
   spe : {0 - 11 * FP},
   version_program : {"Gaussian 16"}]

\* the base names of the files of a run, in the order of the command line
FileNames == <<<<"a">>, <<"b", "1">>, <<"b", "2">>, <<"c">>>>

\* the files g under the names of the command line
Named(g) == [i \in DOMAIN g |-> g[i] @@ [name |-> FileNames[i]]]

\* the output files a whole run is explored on
MainFiles ==
  [scf_energy : {0 - FP, 0 - 2 * FP},
   zpc_line : BOOLEAN,
   zero_point_corr : {100},
   mult : {FP},
   molecular_mass : {2 * FP},
   symmno : {1},
   point_group : {"C1"},
   rot : {[kind |-> "triple", vals |-> <<500, 1000, 2000>>],
          [kind |-> "stars", vals |-> <<1000, 2000>>]},
   freqs : {<<500, 2000>>},
   sp_file : BOOLEAN,
   spe : {0 - 3 * FP},
   version_program : {"Gaussian 16"}]

\* the default of the -v option, False, which python holds equal to 0.0
DEFAULT_SCALE == 0

\* the options as parse_args returns them
ParsedOptions(QHs, Ts, cutoffs, spcs, boltzs, pess) ==
  [QH : QHs,
   temperature : Ts,
   freq_cutoff : cutoffs,
   conc : {DEFAULT_CONC},
   freq_scale_factor : {DEFAULT_SCALE},
   solv : {"none"},
   spc : spcs,
   boltz : boltzs,
   pes : pess,
   cputime : {FALSE},
   check : {FALSE}]

\* the lengths of the months of the year 100 of datetime, which is not a leap year
DaysInMonth == <<31, 28, 31, 30, 31, 30, 31, 31, 30, 31, 30, 31>>

\* datetime(100, 1, 1, 00, 00, 00, 00)
StartOfYear ==
  [month |-> 1, day |-> 1, hour |-> 0, minute |-> 0, second |-> 0, microsecond |-> 0]

\* the month and the day of the date n days after the first day of month m
RECURSIVE FromOrdinal(_, _)
FromOrdinal(n, m) ==
  IF n < DaysInMonth[m] THEN [month |-> m, day |-> n + 1]
  ELSE FromOrdinal(n - DaysInMonth[m], m + 1)

\* addTime(tm, cpu): the date of January with the day and the time of tm, plus the time
\* cpu = [days, hrs, mins, secs, msecs]
addTime(tm, cpu) ==
  LET microseconds == tm.microsecond + cpu[5] * 1000
      seconds == tm.second + cpu[4] + microseconds \div 1000000
                 + 60 * (tm.minute + cpu[3]) + 3600 * (tm.hour + cpu[2])
      date == FromOrdinal((tm.day - 1) + cpu[1] + seconds \div 86400, 1)
  IN [month |-> date.month, day |-> date.day,
      hour |-> (seconds % 86400) \div 3600,
      minute |-> (seconds % 3600) \div 60,
      second |-> seconds % 60,
      microsecond |-> microseconds % 1000000]

\* the lists ZPE_duplic, entropy_duplic and qh_entropy_duplic of main(), line 926
NoDuplic == [ZPE_duplic |-> <<>>, entropy_duplic |-> <<>>, qh_entropy_duplic |-> <<>>]

\* what main() writes after the table: the pairs of files named as potential duplicates,
\* whether the caution of the IndexError is written, and the days, hours, minutes and
\* seconds of the TOTAL CPU line (<<>> when there is none)
NoChecks == [duplicates |-> <<>>, index_error |-> FALSE, total_cpu |-> <<>>]

\* the threshold 0.00016 of the duplicate check, in the units of the model
DUPLIC_THRESHOLD == 16

\* a > b - 0.00016 and a < b + 0.00016, lines 1066-1069
Close(a, b) == a > b - DUPLIC_THRESHOLD /\ a < b + DUPLIC_THRESHOLD

\* the pairs (i, j) with j > i of n files in the order of the two loops of lines
\* 1063-1065, from the pair after (i, j) on
RECURSIVE PairsFrom(_, _, _)
PairsFrom(i, j, n) ==
  IF i > n THEN <<>>
  ELSE IF j > n THEN PairsFrom(i + 1, i + 2, n)
  ELSE <<<<i, j>>>> \o PairsFrom(i, j + 1, n)

\* main(), lines 1063-1072: the pairs added to duplicates while the pairs ps are visited;
\* an index past the end of a list raises IndexError, which ends the loops
RECURSIVE FindDuplicates(_, _)
FindDuplicates(info, ps) ==
  IF ps = <<>> THEN [duplicates |-> <<>>, index_error |-> FALSE]
  ELSE LET i == Head(ps)[1]
           j == Head(ps)[2]
           rest == FindDuplicates(info, Tail(ps))
       IN IF ~Close(info[1][i], info[1][j])
          THEN rest
          ELSE IF i > Len(info[2]) \/ j > Len(info[2])
          THEN [duplicates |-> <<>>, index_error |-> TRUE]
          ELSE IF /\ Close(info[2][i], info[2][j])
                  /\ Close(info[3][i], info[3][j])
                  /\ Close(info[4][i], info[4][j])
          THEN [rest EXCEPT !.duplicates = <<Head(ps)>> \o @]
          ELSE rest

\* main(), lines 1051-1060: info_duplic, the energies of all files (sp_energy(file)[0],
\* the energy of the SCF Done line of the output file) and the three lists of the loop
\* over the files
InfoDuplic(fs, lists) ==
  <<[i \in DOMAIN fs |-> fs[i].scf_energy],
    lists.ZPE_duplic, lists.entropy_duplic, lists.qh_entropy_duplic>>

\* main(), line 1276: the days, hours, minutes and seconds of the TOTAL CPU line
TotalCpuLine(tm, days) == <<tm.day + days - 1, tm.hour, tm.minute, tm.second>>

\* no exception raised
NoError == [exc |-> "none", file |-> 0]

\* the state of a run before get_pes is called
NoPES == [species |-> <<>>]

InitBBE ==
  /\ pc = "start"
  /\ options \in ParsedOptions(QHInputs, Temperatures, Cutoffs, SpcInputs, {FALSE}, {"False"})
  /\ files \in [1..1 -> BBEFiles]
  /\ bbe_vals = <<>>
  /\ boltz = [set |-> FALSE]
  /\ output = <<>>
  /\ err = NoError
  /\ pesfile = <<>>
  /\ PES = NoPES
  /\ table = <<>>
  /\ total_cpu_time = StartOfYear
  /\ add_days = 0
  /\ info_duplic = NoDuplic
  /\ checks = NoChecks

\* KnownQH accepting every method name
KnownQH_Any(QH) == QH = QH

\* the quasi-harmonic methods main() accepts
KnownQH(QH) == QH \in {"grimme", "truhlar"}

\* main(), lines 757-872: the method name in lower case, the header, the concentration,
\* the scale factor and the quasi-harmonic method; an unknown method ends the run in
\* log.Fatal
Setup ==
  /\ pc = "start"
  /\ IF KnownQH(lower(options.QH))
     THEN /\ pc' = "eval"
          /\ options' = [options EXCEPT
                !.QH = lower(@),
                !.conc = IF @ = DEFAULT_CONC
                         THEN Div(atmos, Mul(GAS_CONSTANT, options.temperature)) ELSE @,
                !.freq_scale_factor = IF @ = DEFAULT_SCALE THEN FP ELSE @]
     ELSE /\ pc' = "fatal"
          /\ options' = [options EXCEPT !.QH = lower(@)]
  /\ UNCHANGED <<files, bbe_vals, boltz, output, err, pesfile, PES, table,
               total_cpu_time, add_days, info_duplic, checks>>

\* main(), lines 874-876: one turn of the loop over the files
EvalFile ==
  /\ pc = "eval"
  /\ Len(bbe_vals) < Len(files)
  /\ LET file == files[Len(bbe_vals) + 1]
         bbe == calc_bbe(file, options.QH, options.freq_cutoff, options.temperature,
                         options.conc, options.freq_scale_factor, options.solv, options.spc)
     IN bbe_vals' = Append(bbe_vals, bbe)
  /\ UNCHANGED <<pc, options, files, boltz, output, err, pesfile, PES, table,
               total_cpu_time, add_days, info_duplic, checks>>

\* the least of a non-empty set of numbers
Min(S) == CHOOSE x \in S : \A y \in S : x <= y

\* sys.float_info.max
FLOAT_MAX == 2000000 * FP

\* exp(-e * j_to_au / GAS_CONSTANT / temperature), the Boltzmann factor of an energy
BoltzmannFactor(e, temperature) ==
  exp(Div(Div(Mul(0 - e, j_to_au), GAS_CONSTANT), temperature))

\* BoltzmannFactors relative to the least stable structure
BoltzmannFactors_MaxShift(thermo_data, temperature) ==
  LET have == {i \in 1..Len(thermo_data) : hasattr(thermo_data[i], "qh_gibbs_free_energy")}
      e_max == 0 - Min({FLOAT_MAX} \cup {0 - thermo_data[i].qh_gibbs_free_energy : i \in have})
      boltz_facs == [i \in have |->
                       BoltzmannFactor(thermo_data[i].qh_gibbs_free_energy - e_max, temperature)]
  IN [set |-> TRUE, e_min |-> e_max, boltz_facs |-> boltz_facs,
      boltz_sum |-> sum([k \in 1..Len(thermo_data) |->
                           IF k \in have THEN boltz_facs[k] ELSE 0])]

\* main(), lines 898-924: the Boltzmann factors of the files that have a quasi-harmonic
\* Gibbs energy, relative to the most stable one, and their sum
BoltzmannFactors(thermo_data, temperature) ==
  LET have == {i \in 1..Len(thermo_data) : hasattr(thermo_data[i], "qh_gibbs_free_energy")}
      e_min == Min({FLOAT_MAX} \cup {thermo_data[i].qh_gibbs_free_energy : i \in have})
      boltz_facs == [i \in have |->
                       BoltzmannFactor(thermo_data[i].qh_gibbs_free_energy - e_min, temperature)]
  IN [set |-> TRUE, e_min |-> e_min, boltz_facs |-> boltz_facs,
      boltz_sum |-> sum([k \in 1..Len(thermo_data) |->
                           IF k \in have THEN boltz_facs[k] ELSE 0])]

\* StartTable as soon as one file is evaluated
StartTable_Early ==
  /\ pc = "eval"
  /\ Len(bbe_vals) >= 1
  /\ boltz' = IF options.boltz THEN BoltzmannFactors(bbe_vals, options.temperature)
              ELSE [set |-> FALSE]
  /\ pc' = "table"
  /\ UNCHANGED <<options, files, bbe_vals, output, err, pesfile, PES, table,
               total_cpu_time, add_days, info_duplic, checks>>

\* main(), lines 878-924: the collected data, the table header and the Boltzmann factors
StartTable ==
  /\ pc = "eval"
  /\ Len(bbe_vals) = Len(files)
  /\ boltz' = IF options.boltz THEN BoltzmannFactors(bbe_vals, options.temperature)
              ELSE [set |-> FALSE]
  /\ pc' = "table"
  /\ UNCHANGED <<options, files, bbe_vals, output, err, pesfile, PES, table,
               total_cpu_time, add_days, info_duplic, checks>>

\* '{:13.6f}'.format(v), lines 961-962: a number is formatted, a string raises ValueError,
\* any other object raises TypeError
FormatFloat(v) ==
  CASE v.type = "float" -> [exc |-> "none", text |-> <<v.val>>]
    [] v.type = "str" -> [exc |-> "ValueError", text |-> <<>>]
    [] OTHER -> [exc |-> "TypeError", text |-> <<>>]

\* all(getattr(bbe, attrib) for attrib in [...]), line 966: no quantity is 0.0
AllTruthy(bbe) ==
  /\ bbe.enthalpy # 0
  /\ bbe.entropy # 0
  /\ bbe.qh_entropy # 0
  /\ bbe.gibbs_free_energy # 0
  /\ bbe.qh_gibbs_free_energy # 0

\* main(), lines 949-977: what the loop over the files writes for file i, and the
\* exception that ends it, if any.  mark is the o or x in front of the name, E_SPC the
\* single point column, values the six thermochemical columns, Boltz the Boltzmann column
ReportRow(i, bbe, warning_linear, opts, boltz_data) ==
  LET head == [file |-> i, linear_warning |-> FALSE,
               mark |-> IF hasattr(bbe, "gibbs_free_energy") THEN "o" ELSE "x",
               E_SPC |-> <<>>, values |-> <<>>, Boltz |-> <<>>, exc |-> "none"]
      spc == IF opts.spc # "False" THEN FormatFloat(bbe.sp_energy)
             ELSE [exc |-> "none", text |-> <<>>]
      withspc == [head EXCEPT !.E_SPC = IF spc.exc = "ValueError" THEN <<"----">> ELSE spc.text]
      withvals == [withspc EXCEPT !.values =
                     IF hasattr(bbe, "gibbs_free_energy") /\ AllTruthy(bbe)
                     THEN <<bbe.zpe, bbe.enthalpy, Mul(opts.temperature, bbe.entropy),
                            Mul(opts.temperature, bbe.qh_entropy),
                            bbe.gibbs_free_energy, bbe.qh_gibbs_free_energy>>
                     ELSE <<>>]
  IN IF <<warning_linear.linear_warning>> = <<LINEAR_WARNING>>
     THEN [head EXCEPT !.linear_warning = TRUE, !.mark = "x"]
     ELSE IF spc.exc = "TypeError"
     THEN [head EXCEPT !.exc = "TypeError"]
     ELSE IF ~opts.boltz
     THEN withvals
     ELSE IF i \notin DOMAIN boltz_data.boltz_facs
     THEN [withvals EXCEPT !.exc = "KeyError"]
     ELSE [withvals EXCEPT !.Boltz = <<Div(boltz_data.boltz_facs[i], boltz_data.boltz_sum)>>]

\* main(), lines 936-940: the total CPU time after the turn of the loop for bbe
CpuTimeAfter(bbe) ==
  IF options.cputime /\ hasattr(bbe, "cpu") /\ bbe.cpu # None
  THEN addTime(total_cpu_time, bbe.cpu)
  ELSE total_cpu_time

\* main(), lines 968-971: the lists of the duplicate check after a row is written; the
\* values are appended when the row has its thermochemical columns
DuplicAfter(row) ==
  IF options.check /\ row.values # <<>>
  THEN [ZPE_duplic |-> Append(info_duplic.ZPE_duplic, row.values[1]),
        entropy_duplic |-> Append(info_duplic.entropy_duplic, row.values[3]),
        qh_entropy_duplic |-> Append(info_duplic.qh_entropy_duplic, row.values[4])]
  ELSE info_duplic

\* ReportFile with the dispersion correction of lines 930-934 added to the stored energy
ReportFile_D3 ==
  /\ pc = "table"
  /\ Len(output) < Len(files)
  /\ LET i == Len(output) + 1
         warning_linear == calc_bbe(files[i], options.QH, options.freq_cutoff,
                                    options.temperature, options.conc,
                                    options.freq_scale_factor, options.solv, options.spc)
         row == ReportRow(i, bbe_vals[i], warning_linear, options, boltz)
     IN /\ output' = Append(output, row)
        /\ bbe_vals' = [bbe_vals EXCEPT ![i].scf_energy = @ - 1]
        /\ IF row.exc = "none"
           THEN UNCHANGED <<pc, err>>
           ELSE pc' = "crashed" /\ err' = [exc |-> row.exc, file |-> i]
        /\ total_cpu_time' = CpuTimeAfter(bbe_vals[i])
        /\ add_days' = IF CpuTimeAfter(bbe_vals[i]).month > 1 THEN add_days + 31
                       ELSE add_days
        /\ info_duplic' = DuplicAfter(row)
  /\ UNCHANGED <<options, files, boltz, pesfile, PES, table, checks>>

\* main(), lines 927-986: one turn of the loop that writes the results table; an
\* exception raised while the row is written ends the run
ReportFile ==
  /\ pc = "table"
  /\ Len(output) < Len(files)
  /\ LET i == Len(output) + 1
         warning_linear == calc_bbe(files[i], options.QH, options.freq_cutoff,
                                    options.temperature, options.conc,
                                    options.freq_scale_factor, options.solv, options.spc)
         row == ReportRow(i, bbe_vals[i], warning_linear, options, boltz)
     IN /\ output' = Append(output, row)
        /\ IF row.exc = "none"
           THEN UNCHANGED <<pc, err>>
           ELSE pc' = "crashed" /\ err' = [exc |-> row.exc, file |-> i]
        /\ total_cpu_time' = CpuTimeAfter(bbe_vals[i])
        /\ add_days' = IF CpuTimeAfter(bbe_vals[i]).month > 1 THEN add_days + 31
                       ELSE add_days
        /\ info_duplic' = DuplicAfter(row)
  /\ UNCHANGED <<options, files, bbe_vals, boltz, pesfile, PES, table, checks>>

\* main(), lines 988-1279: the end of the results table, the duplicate check and the
\* TOTAL CPU line; the relative values are tabulated next when a PES file is given
EndTable ==
  /\ pc = "table"
  /\ Len(output) = Len(files)
  /\ pc' = IF options.pes # "False" THEN "pes_species" ELSE "close"
  /\ checks' =
       LET found == IF options.check
                    THEN FindDuplicates(InfoDuplic(files, info_duplic),
                                        PairsFrom(1, 2, Len(files)))
                    ELSE [duplicates |-> <<>>, index_error |-> FALSE]
       IN [duplicates |-> found.duplicates,
           index_error |-> found.index_error,
           total_cpu |-> IF options.cputime THEN TotalCpuLine(total_cpu_time, add_days)
                         ELSE <<>>]
  /\ UNCHANGED <<options, files, bbe_vals, boltz, output, err, pesfile, PES, table,
               total_cpu_time, add_days, info_duplic>>

\* main(), line 1324: log.Finalize()
Finalize ==
  /\ pc = "close"
  /\ pc' = "done"
  /\ UNCHANGED <<options, files, bbe_vals, boltz, output, err, pesfile, PES, table,
               total_cpu_time, add_days, info_duplic, checks>>

(***************************************************************************)
(* get_pes.  The PES file is modelled by what get_pes reads from it:       *)
(*   species   the lines of the SPECIES block, each a name n and a file    *)
(*             pattern f (a sequence of characters, * the wildcard)        *)
(*   zero      the structures of the zero line, split at +                 *)
(*   boltz     the value of the boltz line, <<>> when there is none        *)
(*   pes       the lines of the PES block, each the list of the points of  *)
(*             one pathway, a point being its structures split at +.  The  *)
(*             name of a pathway is the number of its line.                *)
(* A Python value that may be a bool or a str carries its type.            *)
(***************************************************************************)
PyFalse == [type |-> "bool", val |-> "False"]
Str(s) == [type |-> "str", val |-> s]

\* s.find(sub) > -1
Contains(s, sub) ==
  \E k \in 0..(Len(s) - Len(sub)) : SubSeq(s, k + 1, k + Len(sub)) = sub

\* f.strip('*')
RECURSIVE StripStars(_)
StripStars(f) ==
  IF f # <<>> /\ Head(f) = "*" THEN StripStars(Tail(f))
  ELSE IF f # <<>> /\ f[Len(f)] = "*" THEN StripStars(SubSeq(f, 1, Len(f) - 1))
  ELSE f

\* get_pes, lines 139-153: the file or, for a pattern with a wildcard, the list of the
\* files that a SPECIES line names; <<>> when no file with thermochemistry matches
SpeciesMatch(f, fileList) ==
  IF ~Contains(f, <<"*">>)
  THEN LET match == {i \in DOMAIN fileList : fileList[i] = f}
       IN IF match # {}
          THEN <<[list |-> FALSE, file |-> CHOOSE i \in match : \A k \in match : k <= i]>>
          ELSE <<>>
  ELSE LET match == SelectSeq([i \in DOMAIN fileList |-> i],
                              LAMBDA i : Contains(fileList[i], StripStars(f)))
       IN IF Len(match) > 0 THEN <<[list |-> TRUE, files |-> match]>> ELSE <<>>

\* get_pes, lines 127-155 and 171: the dictionary of the species that have
\* thermochemistry, a later line of the same name replacing an earlier one, and the
\* warnings for the others
RECURSIVE ReadSpecies(_, _)
ReadSpecies(lines, fileList) ==
  IF lines = <<>> THEN [species |-> <<>>, warnings |-> <<>>]
  ELSE LET line == lines[Len(lines)]
           before == ReadSpecies(SubSeq(lines, 1, Len(lines) - 1), fileList)
           match == SpeciesMatch(line.f, fileList)
       IN IF match # <<>>
          THEN [before EXCEPT !.species = (line.n :> match[1]) @@ @]
          ELSE [before EXCEPT !.warnings =
                  Append(@, [kind |-> "no thermochemistry data found", f |-> line.f])]

\* the quantities get_pes adds up, all 0.0
ZeroQuantities ==
  [spc |-> 0, e |-> 0, zpe |-> 0, h |-> 0, ts |-> 0, qhts |-> 0, g |-> 0, qhg |-> 0]

\* a + b, quantity by quantity
AddQuantities(a, b) ==
  [spc |-> a.spc + b.spc, e |-> a.e + b.e, zpe |-> a.zpe + b.zpe, h |-> a.h + b.h,
   ts |-> a.ts + b.ts, qhts |-> a.qhts + b.qhts, g |-> a.g + b.g, qhg |-> a.qhg + b.qhg]

\* the quantities of one result; its single point energy is handled apart
Quantities(bbe) ==
  [spc |-> 0, e |-> bbe.scf_energy, zpe |-> bbe.zpe, h |-> bbe.enthalpy,
   ts |-> bbe.entropy, qhts |-> bbe.qh_entropy, g |-> bbe.gibbs_free_energy,
   qhg |-> bbe.qh_gibbs_free_energy]

\* RankingKey taking the harmonic Gibbs energy
RankingKey_Harmonic(bbe) == bbe.gibbs_free_energy

\* get_pes, lines 192-194 and 246-248: the energy the conformers of a list are ranked
\* and weighted by
RankingKey(bbe) == bbe.qh_gibbs_free_energy

\* Weighted without the division by boltz_sum
Weighted_Unnormalised(q, boltz_fac, boltz_sum) ==
  [x \in DOMAIN q |-> Mul(q[x], boltz_fac)]

\* Weighted with the weight of a conformer given to the rest of the list
Weighted_Inverse(q, boltz_fac, boltz_sum) ==
  [x \in DOMAIN q |-> Div(Mul(q[x], boltz_sum - boltz_fac), boltz_sum)]

\* q * boltz_fac / boltz_sum, quantity by quantity
Weighted(q, boltz_fac, boltz_sum) ==
  [x \in DOMAIN q |-> Div(Mul(q[x], boltz_fac), boltz_sum)]

\* get_pes, lines 234-261 (and the same code for the zero structures, lines 180-207):
\* the quantities of a structure of the dictionary, those of its file or the Boltzmann
\* average over its list of conformers, or the exception raised: TypeError when a single
\* point energy is added to a number, AttributeError for a result that lacks the
\* thermochemical quantities
RegisteredValues(entry, thermo_data, temperature) ==
  IF ~entry.list
  THEN LET bbe == thermo_data[entry.file]
       IN IF hasattr(bbe, "sp_energy")
          THEN [exc |-> "TypeError", vals |-> ZeroQuantities]
          ELSE IF ~hasattr(bbe, "zpe")
          THEN [exc |-> "AttributeError", vals |-> ZeroQuantities]
          ELSE [exc |-> "none", vals |-> Quantities(bbe)]
  ELSE LET conformers == entry.files
           have == \A k \in DOMAIN conformers :
                     hasattr(thermo_data[conformers[k]], "qh_gibbs_free_energy")
           g_min == Min({RankingKey(thermo_data[conformers[k]]) : k \in DOMAIN conformers})
           boltz_fac == [k \in DOMAIN conformers |->
                           BoltzmannFactor(RankingKey(thermo_data[conformers[k]]) - g_min,
                                           temperature)]
           boltz_sum == sum(boltz_fac)
           parts == [k \in DOMAIN conformers |->
                       Weighted(Quantities(thermo_data[conformers[k]]),
                                boltz_fac[k], boltz_sum)]
       IN IF ~have
          THEN [exc |-> "AttributeError", vals |-> ZeroQuantities]
          ELSE IF hasattr(thermo_data[conformers[1]], "sp_energy")
          THEN [exc |-> "TypeError", vals |-> ZeroQuantities]
          ELSE [exc |-> "none",
                vals |-> [q \in DOMAIN ZeroQuantities |->
                            sum([k \in DOMAIN conformers |-> parts[k][q]])]]

\* StructureValues for which a structure that is not in the dictionary contributes 0.0
StructureValues_SkipUndefined(structure, species, thermo_data, temperature) ==
  IF structure \notin DOMAIN species
  THEN [exc |-> "none", vals |-> ZeroQuantities]
  ELSE RegisteredValues(species[structure], thermo_data, temperature)

\* get_pes, lines 180-181 and 234-235: species[structure] raises KeyError for a
\* structure that is not in the dictionary
StructureValues(structure, species, thermo_data, temperature) ==
  IF structure \notin DOMAIN species
  THEN [exc |-> "KeyError", vals |-> ZeroQuantities]
  ELSE RegisteredValues(species[structure], thermo_data, temperature)

\* get_pes, lines 178-207 and 233-261: the loop over the structures of a combination,
\* which the first exception ends; structure is the one that raised it
RECURSIVE SumStructures(_, _, _, _)
SumStructures(structures, species, thermo_data, temperature) ==
  IF structures = <<>> THEN [exc |-> "none", structure |-> "", vals |-> ZeroQuantities]
  ELSE LET first == StructureValues(structures[1], species, thermo_data, temperature)
           rest == SumStructures(Tail(structures), species, thermo_data, temperature)
       IN IF first.exc # "none"
          THEN [exc |-> first.exc, structure |-> structures[1], vals |-> ZeroQuantities]
          ELSE [rest EXCEPT !.vals = AddQuantities(first.vals, @)]

\* ZeroValues that adds up the first structure of the zero line only
ZeroValues_FirstOnly(structures, species, thermo_data, temperature) ==
  SumStructures(<<structures[1]>>, species, thermo_data, temperature)

\* get_pes, lines 177-211: the quantities of the zero line, added up over its structures
ZeroValues(structures, species, thermo_data, temperature) ==
  SumStructures(structures, species, thermo_data, temperature)

\* ResolvePoints for which a point that cannot be resolved is left out and the loop
\* goes on
RECURSIVE ResolvePoints_Skip(_, _, _, _)
ResolvePoints_Skip(points, species, thermo_data, temperature) ==
  IF points = <<>> THEN [exc |-> "none", structure |-> "", species |-> <<>>, abs |-> <<>>]
  ELSE LET first == SumStructures(points[1], species, thermo_data, temperature)
           rest == ResolvePoints_Skip(Tail(points), species, thermo_data, temperature)
       IN IF first.exc # "none" THEN rest
          ELSE [rest EXCEPT !.species = <<points[1]>> \o @, !.abs = <<first.vals>> \o @]

\* get_pes, lines 228-266: the loop over the points of one pathway, which the first
\* exception ends: the points resolved before it and their quantities
RECURSIVE ResolvePoints(_, _, _, _)
ResolvePoints(points, species, thermo_data, temperature) ==
  IF points = <<>> THEN [exc |-> "none", structure |-> "", species |-> <<>>, abs |-> <<>>]
  ELSE LET first == SumStructures(points[1], species, thermo_data, temperature)
           rest == ResolvePoints(Tail(points), species, thermo_data, temperature)
       IN IF first.exc # "none"
          THEN [exc |-> first.exc, structure |-> first.structure,
                species |-> <<>>, abs |-> <<>>]
          ELSE [rest EXCEPT !.species = <<points[1]>> \o @, !.abs = <<first.vals>> \o @]

\* the bound on the number of points of the pathways of a PES file, all together
MaxPoints == 3

\* the PES files a run is explored on: species A, B and C, of which B may be a list of
\* conformers and C may have no file with thermochemistry
SpeciesLines ==
  {<<[n |-> "A", f |-> <<"a">>], [n |-> "B", f |-> fB], [n |-> "C", f |-> fC]>> :
     fB \in {<<"b", "1">>, <<"b", "*">>}, fC \in {<<"b", "2">>, <<"z">>}}
ZeroLines == {<<"A">>, <<"B">>, <<"A", "C">>}
BoltzLines == {<<>>, <<"True">>, <<"ee">>}
PointMenu == {<<"A">>, <<"B">>, <<"A", "C">>}

\* the lists of pathways that have at most n points all together
RECURSIVE PathLists(_)
PathLists(n) ==
  {<<>>} \cup UNION {{<<p>> \o rest : p \in [1..k -> PointMenu], rest \in PathLists(n - k)} :
                      k \in 1..n}

PesFiles ==
  [species : SpeciesLines, zero : ZeroLines, boltz : BoltzLines,
   pes : PathLists(MaxPoints) \ {<<>>}]

\* the PES files of the runs over an ensemble of conformers: the one species G is the
\* list of all the files of the run, and it is both the zero and the only point
ConformerPesFiles ==
  [species : {<<[n |-> "G", f |-> <<"*">>]>>}, zero : {<<"G">>},
   boltz : {<<>>, <<"True">>}, pes : {<<<<<<"G">>>>>>}]

\* the contents the file that --pes names may have
ReadPesFile(name) == IF name = "conformers.txt" THEN ConformerPesFiles ELSE PesFiles

\* get_pes, lines 124-171: the file is read, the defaults are set and the SPECIES and
\* FORMAT blocks are scanned
GetPesSpecies ==
  /\ pc = "pes_species"
  /\ \E data \in ReadPesFile(options.pes) :
       LET read == ReadSpecies(data.species, [i \in DOMAIN files |-> files[i].name])
       IN /\ pesfile' = data
          /\ PES' = [dps |-> 2, units |-> "kcal/mol",
                     boltz |-> IF data.boltz = <<>> THEN PyFalse ELSE Str(data.boltz[1]),
                     species_dict |-> read.species,
                     zero |-> ZeroQuantities,
                     path |-> <<>>, species |-> <<>>, abs |-> <<>>]
          /\ output' = output \o read.warnings
  /\ pc' = "pes_zero"
  /\ UNCHANGED <<options, files, bbe_vals, boltz, err, table,
               total_cpu_time, add_days, info_duplic, checks>>

\* get_pes, lines 173-211: the quantities of the zero structures are added up; a
\* structure that is not in the dictionary ends the run with two warnings and sys.exit
GetPesZero ==
  /\ pc = "pes_zero"
  /\ LET zero == ZeroValues(pesfile.zero, PES.species_dict, bbe_vals, options.temperature)
     IN CASE zero.exc = "none" ->
               /\ PES' = [PES EXCEPT !.zero = zero.vals]
               /\ pc' = "pes_paths"
               /\ UNCHANGED <<output, err>>
          [] zero.exc = "KeyError" ->
               /\ output' = output \o
                    <<[kind |-> "has not been defined correctly as energy-zero",
                       structure |-> zero.structure],
                      [kind |-> "Make sure this structure matches one of the SPECIES",
                       structure |-> zero.structure]>>
               /\ pc' = "exited"
               /\ UNCHANGED <<PES, err>>
          [] OTHER ->
               /\ pc' = "crashed"
               /\ err' = [exc |-> zero.exc, file |-> 0]
               /\ UNCHANGED <<PES, output>>
  /\ UNCHANGED <<options, files, bbe_vals, boltz, pesfile, table,
               total_cpu_time, add_days, info_duplic, checks>>

\* get_pes, lines 217-269: one line of the PES block; a point with a structure that is
\* not in the dictionary ends the run with a warning and sys.exit
GetPesPath ==
  /\ pc = "pes_paths"
  /\ Len(PES.path) < Len(pesfile.pes)
  /\ LET n == Len(PES.path) + 1
         r == ResolvePoints(pesfile.pes[n], PES.species_dict, bbe_vals, options.temperature)
     IN /\ PES' = [PES EXCEPT !.path = Append(@, n),
                              !.species = Append(@, r.species),
                              !.abs = Append(@, r.abs)]
        /\ CASE r.exc = "none" ->
                  /\ pc' = IF n = Len(pesfile.pes) THEN "pes_table" ELSE "pes_paths"
                  /\ UNCHANGED <<output, err>>
             [] r.exc = "KeyError" ->
                  /\ output' = Append(output, [kind |-> "has not been defined correctly",
                                               structure |-> r.structure])
                  /\ pc' = "exited"
                  /\ UNCHANGED err
             [] OTHER ->
                  /\ pc' = "crashed"
                  /\ err' = [exc |-> r.exc, file |-> 0]
                  /\ UNCHANGED output
  /\ UNCHANGED <<options, files, bbe_vals, boltz, pesfile, table,
               total_cpu_time, add_days, info_duplic, checks>>

\* kcal_to_au in the units of the model
kcal_to_au == 3 * FP

\* the greatest argument of math.exp that does not raise OverflowError
EXP_MAX == 7 * FP

\* main(), lines 1282 and 1288: the list of the eight quantities, the entropies times
\* the temperature
ValueList(q, temperature) ==
  <<q.spc, q.e, q.zpe, q.h, Mul(temperature, q.ts), Mul(temperature, q.qhts), q.g, q.qhg>>

\* Relative that takes off half of the zero values only
Relative_HalfZero(pes, i, j, temperature) ==
  LET species == ValueList(pes.abs[i][j], temperature)
      zero_vals == ValueList(pes.zero, temperature)
  IN [x \in 1..8 |-> species[x] - (zero_vals[x] \div 2)]

\* main(), lines 1289 and 1301: the values of point j of pathway i relative to the zero
Relative(pes, i, j, temperature) ==
  LET species == ValueList(pes.abs[i][j], temperature)
      zero_vals == ValueList(pes.zero, temperature)
  IN [x \in 1..8 |-> species[x] - zero_vals[x]]

\* relative[1], relative[3], relative[6] and relative[7] of the code: E, H, G and qh-G
Tracked(relative) == <<relative[2], relative[4], relative[7], relative[8]>>

\* PathSums over the points of all the pathways
PathSums_AllPaths(pes, i, temperature) ==
  [x \in 1..4 |->
     sum([n \in 1..Len(pes.abs) |->
            sum([j \in 1..Len(pes.abs[n]) |->
                   BoltzmannFactor(Tracked(Relative(pes, n, j, temperature))[x],
                                   temperature)])])]

\* main(), lines 1286-1293: e_sum, h_sum, g_sum and qhg_sum of pathway i
PathSums(pes, i, temperature) ==
  [x \in 1..4 |->
     sum([j \in 1..Len(pes.abs[i]) |->
            BoltzmannFactor(Tracked(Relative(pes, i, j, temperature))[x], temperature)])]

\* math.exp raises OverflowError for one of the points of pathway i
PathOverflows(pes, i, temperature) ==
  \E j \in 1..Len(pes.abs[i]) : \E x \in 1..4 :
    Div(Div(Mul(0 - Tracked(Relative(pes, i, j, temperature))[x], j_to_au), GAS_CONSTANT),
        temperature) > EXP_MAX

\* main(), lines 1313-1314: the percentages of a point
Selectivity(relative, sums, temperature) ==
  [x \in 1..4 |->
     Mul(Div(BoltzmannFactor(Tracked(relative)[x], temperature), sums[x]), 100 * FP)]

\* ReportsEE for a pathway of two or more points
ReportsEE_AnyLength(pes, sels) == pes.boltz = Str("ee") /\ Len(sels) >= 2

\* main(), line 1317: the condition of the ee line
ReportsEE(pes, sels) == pes.boltz = Str("ee") /\ Len(sels) = 2

\* EnantiomericExcess that doubles the difference
EnantiomericExcess_Doubled(sels) == [x \in 1..4 |-> 2 * (sels[1][x] - sels[2][x])]

\* main(), line 1318
EnantiomericExcess(sels) == [x \in 1..4 |-> sels[1][x] - sels[2][x]]

\* main(), lines 1285-1321: what is written for pathway i, and the exception that ends
\* it, if any.  A row holds the relative values of a point in atomic units (relative)
\* and in kcal/mol (formatted_list), before they are rounded to dps digits.
TabulatedPath(pes, i, opts) ==
  LET n == Len(pes.abs[i])
      showboltz == pes.boltz # PyFalse
      rels == [j \in 1..n |-> Relative(pes, i, j, opts.temperature)]
      formatted(j) == [x \in 1..8 |-> Mul(kcal_to_au, rels[j][x])]
      rows == [j \in 1..n |->
                 [species |-> pes.species[i][j], relative |-> rels[j],
                  formatted_list |-> IF opts.spc = "False" THEN Tail(formatted(j))
                                     ELSE formatted(j)]]
      sums == PathSums(pes, i, opts.temperature)
      sels == IF showboltz
              THEN [j \in 1..n |-> Selectivity(rels[j], sums, opts.temperature)]
              ELSE <<>>
  IN IF showboltz /\ PathOverflows(pes, i, opts.temperature)
     THEN [path |-> i, rows |-> <<>>, sels |-> <<>>, ee |-> <<>>, exc |-> "OverflowError"]
     ELSE IF showboltz /\ \E x \in 1..4 : sums[x] = 0
     THEN [path |-> i, rows |-> <<rows[1]>>, sels |-> <<>>, ee |-> <<>>,
           exc |-> "ZeroDivisionError"]
     ELSE [path |-> i, rows |-> rows, sels |-> sels,
           ee |-> IF ReportsEE(pes, sels) THEN <<EnantiomericExcess(sels)>> ELSE <<>>,
           exc |-> "none"]

\* main(), lines 1283-1321: one turn of the loop over the pathways
TabulatePath ==
  /\ pc = "pes_table"
  /\ Len(table) < Len(PES.path)
  /\ LET i == Len(table) + 1
         entry == TabulatedPath(PES, i, options)
     IN /\ table' = Append(table, entry)
        /\ IF entry.exc = "none"
           THEN /\ pc' = IF i = Len(PES.path) THEN "close" ELSE "pes_table"
                /\ UNCHANGED err
           ELSE /\ pc' = "crashed"
                /\ err' = [exc |-> entry.exc, file |-> 0]
  /\ UNCHANGED <<options, files, bbe_vals, boltz, output, pesfile, PES,
               total_cpu_time, add_days, info_duplic, checks>>

\* a run over one or two files, without a PES file
Init ==
  /\ pc = "start"
  /\ options \in ParsedOptions({"grimme", "TRUHLAR", "gibbs"}, {FP}, {FP},
                               {"False", "SP"}, BOOLEAN, {"False"})
  /\ files \in {Named(g) : g \in UNION {[1..n -> MainFiles] : n \in 1..MaxFiles}}
  /\ bbe_vals = <<>>
  /\ boltz = [set |-> FALSE]
  /\ output = <<>>
  /\ err = NoError
  /\ pesfile = <<>>
  /\ PES = NoPES
  /\ table = <<>>
  /\ total_cpu_time = StartOfYear
  /\ add_days = 0
  /\ info_duplic = NoDuplic
  /\ checks = NoChecks

Next == Setup \/ EvalFile \/ StartTable \/ ReportFile \/ EndTable \/ Finalize

Spec == Init /\ [][Next]_vars

NextBBE == Setup \/ EvalFile

SpecBBE == InitBBE /\ [][NextBBE]_vars

\* an output file of the runs with a PES file
PesRunFile(scf_energy, zpc_line) ==
  [scf_energy |-> scf_energy, zpc_line |-> zpc_line, zero_point_corr |-> 100,
   mult |-> FP, molecular_mass |-> 2 * FP, symmno |-> 1, point_group |-> "C1",
   rot |-> [kind |-> "triple", vals |-> <<500, 1000, 2000>>], freqs |-> <<500, 2000>>,
   sp_file |-> FALSE, spe |-> 0 - 3 * FP, version_program |-> "Gaussian 16"]

\* a run over the files a, b1 and b2 with a PES file
InitPES ==
  /\ pc = "start"
  /\ options \in ParsedOptions({"grimme"}, {FP}, {FP}, {"False", "SP"}, {FALSE}, {"pes.txt"})
  /\ files \in {Named(<<PesRunFile(0 - FP, TRUE), PesRunFile(0 - 1500, zpc_line),
                        PesRunFile(0 - 3800, TRUE)>>) : zpc_line \in BOOLEAN}
  /\ bbe_vals = <<>>
  /\ boltz = [set |-> FALSE]
  /\ output = <<>>
  /\ err = NoError
  /\ pesfile = <<>>
  /\ PES = NoPES
  /\ table = <<>>
  /\ total_cpu_time = StartOfYear
  /\ add_days = 0
  /\ info_duplic = NoDuplic
  /\ checks = NoChecks

NextPES == Next \/ GetPesSpecies \/ GetPesZero \/ GetPesPath \/ TabulatePath

SpecPES == InitPES /\ [][NextPES]_vars

\* the bound on the number of conformers of an ensemble
MaxConformers == 3

\* the electronic energies of the conformers of an ensemble
ConformerEnergies == {0 - FP, 0 - 1200, 0 - 4 * FP}

\* the frequencies of the conformers of an ensemble
ConformerFreqs == {<<500, 2000>>, <<250, 2000>>}

\* the output files of the conformers of an ensemble
ConformerFiles ==
  {[PesRunFile(e, TRUE) EXCEPT !.freqs = f] : e \in ConformerEnergies, f \in ConformerFreqs}

\* a run over an ensemble of one to MaxConformers conformers with a PES file
InitConformers ==
  /\ pc = "start"
  /\ options \in ParsedOptions({"grimme"}, {FP}, {FP}, {"False"}, {FALSE},
                               {"conformers.txt"})
  /\ files \in {Named(g) : g \in UNION {[1..n -> ConformerFiles] :
                                          n \in 1..MaxConformers}}
  /\ bbe_vals = <<>>
  /\ boltz = [set |-> FALSE]
  /\ output = <<>>
  /\ err = NoError
  /\ pesfile = <<>>
  /\ PES = NoPES
  /\ table = <<>>
  /\ total_cpu_time = StartOfYear
  /\ add_days = 0
  /\ info_duplic = NoDuplic
  /\ checks = NoChecks

SpecConformers == InitConformers /\ [][NextPES]_vars

\* the output files of the runs that go through every phase: two energies, with and
\* without a zero-point correction
PhaseFiles == {PesRunFile(e, z) : e \in {0 - FP, 0 - 1200}, z \in BOOLEAN}

\* a run over one to MaxFiles files that goes through every phase: evaluation, table
\* with or without Boltzmann factors, and PES file
InitPhases ==
  /\ pc = "start"
  /\ options \in ParsedOptions({"grimme", "truhlar"}, {FP}, {FP}, {"False"}, BOOLEAN,
                               {"conformers.txt"})
  /\ files \in {Named(g) : g \in UNION {[1..n -> PhaseFiles] : n \in 1..MaxFiles}}
  /\ bbe_vals = <<>>
  /\ boltz = [set |-> FALSE]
  /\ output = <<>>
  /\ err = NoError
  /\ pesfile = <<>>
  /\ PES = NoPES
  /\ table = <<>>
  /\ total_cpu_time = StartOfYear
  /\ add_days = 0
  /\ info_duplic = NoDuplic
  /\ checks = NoChecks

SpecPhases == InitPhases /\ [][NextPES]_vars

\* the bound on the number of linked jobs of a file
MaxLinks == 3

\* the frequencies of one job of a file of linked jobs: none, or real and imaginary ones
JobFreqs == {<<>>, <<0 - 500, 500>>, <<0 - 250>>, <<250, 2000>>}

\* the files of linked jobs
LinkedFiles ==
  {[f \in DOMAIN PesRunFile(0 - FP, TRUE) \ {"freqs"} |-> PesRunFile(0 - FP, TRUE)[f]]
     @@ [jobs |-> js] : js \in SeqUpTo(JobFreqs, MaxLinks) \ {<<>>}}

\* a run of the thermochemistry engine over one file of one to MaxLinks linked jobs
InitLinks ==
  /\ pc = "start"
  /\ options \in ParsedOptions({"grimme"}, {FP}, {FP}, {"False"}, {FALSE}, {"False"})
  /\ files \in {Named(<<g>>) : g \in LinkedFiles}
  /\ bbe_vals = <<>>
  /\ boltz = [set |-> FALSE]
  /\ output = <<>>
  /\ err = NoError
  /\ pesfile = <<>>
  /\ PES = NoPES
  /\ table = <<>>
  /\ total_cpu_time = StartOfYear
  /\ add_days = 0
  /\ info_duplic = NoDuplic
  /\ checks = NoChecks

SpecLinks == InitLinks /\ [][NextBBE]_vars

\* the values of the -s option the runs are explored on: the default, solvents of the
\* table and names that are not in the table
SolventInputs == {"none", "toluene", "DMF", "chloroform", "benzene", "water"}

\* a run over one to MaxFiles files with a solvent
InitSolvent ==
  /\ pc = "start"
  /\ options \in {[o EXCEPT !.solv = s] :
                    o \in ParsedOptions({"grimme", "truhlar"}, {FP}, {FP}, {"False"},
                                        {FALSE}, {"False"}),
                    s \in SolventInputs}
  /\ files \in {Named(g) : g \in UNION {[1..n -> PhaseFiles] : n \in 1..MaxFiles}}
  /\ bbe_vals = <<>>
  /\ boltz = [set |-> FALSE]
  /\ output = <<>>
  /\ err = NoError
  /\ pesfile = <<>>
  /\ PES = NoPES
  /\ table = <<>>
  /\ total_cpu_time = StartOfYear
  /\ add_days = 0
  /\ info_duplic = NoDuplic
  /\ checks = NoChecks

SpecSolvent == InitSolvent /\ [][Next]_vars

\* the CPU times of the files the runs with --cpu are explored on
CpuTimes == {<<0, 0, 0, 0, 29500>>, <<0, 23, 59, 0, 30500>>, <<20, 0, 0, 0, 0>>,
             <<30, 0, 0, 0, 0>>, <<40, 12, 0, 0, 0>>, <<70, 0, 0, 0, 0>>}

\* a run with --cpu over one to MaxFiles files
InitCpu ==
  /\ pc = "start"
  /\ options \in {[o EXCEPT !.cputime = TRUE] :
                    o \in ParsedOptions({"grimme", "truhlar"}, {FP}, {FP}, {"False"},
                                        {FALSE}, {"False"})}
  /\ files \in {Named(g) : g \in UNION {[1..n -> {PesRunFile(0 - FP, TRUE) @@ [cpu |-> c] :
                                                     c \in CpuTimes}] : n \in 1..MaxFiles}}
  /\ bbe_vals = <<>>
  /\ boltz = [set |-> FALSE]
  /\ output = <<>>
  /\ err = NoError
  /\ pesfile = <<>>
  /\ PES = NoPES
  /\ table = <<>>
  /\ total_cpu_time = StartOfYear
  /\ add_days = 0
  /\ info_duplic = NoDuplic
  /\ checks = NoChecks

SpecCpu == InitCpu /\ [][Next]_vars

\* the number of files of a run with --check
MaxChecked == 3

\* the output files the runs with --check are explored on
CheckedFiles == {f \in MainFiles : ~f.sp_file}

\* a run with --check over one to MaxChecked files
InitCheck ==
  /\ pc = "start"
  /\ options \in {[o EXCEPT !.check = TRUE] :
                    o \in ParsedOptions({"grimme"}, {FP}, {FP}, {"False"},
                                        {FALSE}, {"False"})}
  /\ files \in {Named(g) : g \in UNION {[1..n -> CheckedFiles] : n \in 1..MaxChecked}}
  /\ bbe_vals = <<>>
  /\ boltz = [set |-> FALSE]
  /\ output = <<>>
  /\ err = NoError
  /\ pesfile = <<>>
  /\ PES = NoPES
  /\ table = <<>>
  /\ total_cpu_time = StartOfYear
  /\ add_days = 0
  /\ info_duplic = NoDuplic
  /\ checks = NoChecks

SpecCheck == InitCheck /\ [][Next]_vars

\* the values of the -v option: the default, and a scale factor of 0.9
ScaleFactors == {DEFAULT_SCALE, 900}

\* the frequencies, imaginary and real, of the files the quasi-harmonic entropy is
\* explored on
QhFreqValues == {0 - 500, 250, 500, 1000, 2000}

\* the files the quasi-harmonic entropy is explored on
QhFiles ==
  {[PesRunFile(0 - FP, TRUE) EXCEPT !.freqs = f] : f \in SeqUpTo(QhFreqValues, MaxFreqs)}

\* a run of the thermochemistry engine over one file, under both quasi-harmonic methods,
\* with and without a cutoff and a scale factor
InitQH ==
  /\ pc = "start"
  /\ options \in {[o EXCEPT !.freq_scale_factor = v] :
                    o \in ParsedOptions({"grimme", "truhlar"}, Temperatures, {0, 500, FP},
                                        {"False"}, {FALSE}, {"False"}),
                    v \in ScaleFactors}
  /\ files \in {Named(<<g>>) : g \in QhFiles}
  /\ bbe_vals = <<>>
  /\ boltz = [set |-> FALSE]
  /\ output = <<>>
  /\ err = NoError
  /\ pesfile = <<>>
  /\ PES = NoPES
  /\ table = <<>>
  /\ total_cpu_time = StartOfYear
  /\ add_days = 0
  /\ info_duplic = NoDuplic
  /\ checks = NoChecks

SpecQH == InitQH /\ [][NextBBE]_vars

(***************************************************************************)
(* Properties of the thermochemistry engine (specification SpecBBE).       *)
(***************************************************************************)
\* the options of the run with the single point correction switched off
EvalWithoutSp(file) ==
  calc_bbe(file, options.QH, options.freq_cutoff, options.temperature, options.conc,
           options.freq_scale_factor, options.solv, "False")

\* a numeric single point energy was read for file i
SpRead(i) == options.spc = "link" \/ (options.spc # "False" /\ files[i].sp_file)

ThermalFields == {"enthalpy", "entropy", "qh_entropy", "gibbs_free_energy",
                  "qh_gibbs_free_energy"}

\* the result is complete: every thermal field and zpe is set
Complete(bbe) == \A a \in ThermalFields \cup {"zpe"} : hasattr(bbe, a)

\* the result is partial: no thermal field and no zpe is set
Partial(bbe) == \A a \in ThermalFields \cup {"zpe"} : ~hasattr(bbe, a)

\* C1: when a single point energy was read for a structure, its enthalpy is the single
\* point energy plus the thermal correction of the frequency job: enthalpy(with SP)
\* - enthalpy(without SP) = sp_energy - scf_energy.
C1_SpEnthalpy ==
  \A i \in 1..Len(bbe_vals) :
    (SpRead(i) /\ hasattr(bbe_vals[i], "enthalpy"))
      => bbe_vals[i].enthalpy - EvalWithoutSp(files[i]).enthalpy
           = files[i].spe - files[i].scf_energy

\* C6: without a zero-point correction line the result is partial: none of enthalpy,
\* entropy, qh_entropy, gibbs_free_energy, qh_gibbs_free_energy and zpe is set, and the
\* evaluation returns a result (with its frequency list and warning).
C6_NoZpcPartial ==
  \A i \in 1..Len(bbe_vals) :
    ~files[i].zpc_line
      => /\ Partial(bbe_vals[i])
         /\ hasattr(bbe_vals[i], "frequency_wn")
         /\ hasattr(bbe_vals[i], "linear_warning")

C6_Witness ==
  \E i \in 1..Len(bbe_vals) :
    /\ ~files[i].zpc_line
    /\ files[i].rot.kind = "triple"
    /\ bbe_vals[i].frequency_wn # <<>>

\* C7 as stated: with the zero-point correction present and no rotational temperature
\* line, the result is partial, with no enthalpy, entropy or Gibbs energy.
C7_Original ==
  \A i \in 1..Len(bbe_vals) :
    (files[i].zpc_line /\ files[i].rot.kind = "absent")
      => \A a \in ThermalFields : ~hasattr(bbe_vals[i], a)

\* C7 amended: with the zero-point correction present and no rotational temperature
\* line, rotemp keeps its default [0.0, 0.0, 0.0]: the result is complete (enthalpy,
\* entropy and Gibbs energy are set) and its rotational entropy term is zero.
C7_AbsentRotComplete ==
  \A i \in 1..Len(bbe_vals) :
    (files[i].zpc_line /\ files[i].rot.kind = "absent")
      => /\ Complete(bbe_vals[i])
         /\ RotationalEntropy(files[i], bbe_vals[i], options.temperature) = 0

C7_Witness ==
  \E i \in 1..Len(bbe_vals) :
    /\ files[i].zpc_line
    /\ files[i].zero_point_corr # 0
    /\ files[i].rot.kind = "absent"
    /\ bbe_vals[i].frequency_wn # <<>>
    /\ hasattr(bbe_vals[i], "gibbs_free_energy")

\* C8 as stated: when the three-value parse yields two values, the linear geometry
\* warning is set and the result is partial: no entropy, enthalpy or Gibbs energy.
C8_Original ==
  \A i \in 1..Len(bbe_vals) :
    files[i].rot.kind = "stars"
      => /\ bbe_vals[i].linear_warning = LINEAR_WARNING
         /\ \A a \in ThermalFields : ~hasattr(bbe_vals[i], a)

\* C8 amended: when the three-value parse yields two values, the linear geometry warning
\* is set and the two values are kept as rotemp: the result is complete exactly when the
\* zero-point correction is present, and its rotational entropy term is then zero.
C8_StarsWarned ==
  \A i \in 1..Len(bbe_vals) :
    files[i].rot.kind = "stars"
      => /\ bbe_vals[i].linear_warning = LINEAR_WARNING
         /\ files[i].zpc_line => /\ Complete(bbe_vals[i])
                                 /\ RotationalEntropy(files[i], bbe_vals[i],
                                                      options.temperature) = 0
         /\ ~files[i].zpc_line => Partial(bbe_vals[i])

C8_Witness ==
  \E i \in 1..Len(bbe_vals) :
    /\ files[i].rot.kind = "stars"
    /\ files[i].zpc_line
    /\ files[i].zero_point_corr # 0
    /\ bbe_vals[i].frequency_wn # <<>>
    /\ bbe_vals[i].linear_warning = LINEAR_WARNING
    /\ hasattr(bbe_vals[i], "entropy")

(***************************************************************************)
(* Properties of a whole run, checked under Spec.                          *)
(***************************************************************************)

\* C2: a structure with a partial result is only marked as failed and the run goes on
\* to its normal end: no run is ended by an exception raised on the row of a structure
\* whose result is partial
C2_PartialOnlyMarked ==
  pc = "crashed" => ~(err.exc = "KeyError" /\ Partial(bbe_vals[err.file]))

\* C5: when the quasi-harmonic method, compared without regard to case, is neither
\* grimme nor truhlar, the run is still at its start or has ended in the fatal error,
\* no structure has been evaluated and nothing has been written to the results table
C5_UnknownQHFatal ==
  lower(options.QH) \notin {"grimme", "truhlar"} =>
    /\ pc \in {"start", "fatal"}
    /\ bbe_vals = <<>>
    /\ boltz = [set |-> FALSE]
    /\ output = <<>>
    /\ table = <<>>

\* a run with the method gibbs has ended in the fatal error
C5_Witness ==
  /\ pc = "fatal"
  /\ options.QH = "gibbs"
  /\ Len(files) > 0
  /\ bbe_vals = <<>>

(***************************************************************************)
(* Properties of the relative values of the pathways, checked under        *)
(* SpecPES.                                                                *)
(***************************************************************************)

\* get_pes has read the SPECIES block of the PES file
SpeciesRead == pc \in {"pes_zero", "pes_paths", "pes_table", "close", "done", "exited", "crashed"}
               /\ PES # NoPES

\* a structure of the combination is not in the dictionary of the species
Undefined(combination) ==
  \E k \in DOMAIN combination : combination[k] \notin DOMAIN PES.species_dict

\* the first point of pathway n that names a structure that is not in the dictionary
FirstUndefined(n) ==
  Min({j \in DOMAIN pesfile.pes[n] : Undefined(pesfile.pes[n][j])})

C9_BetweenPathways ==
  (pc = "done" /\ PES.boltz = Str("ee") /\ Len(pesfile.pes) = 2) =>
    \A i \in 1..2 :
      table[i].ee # <<>> =>
        \E j1 \in DOMAIN table[1].sels : \E j2 \in DOMAIN table[2].sels :
          \A x \in 1..4 : table[i].ee[1][x] = table[1].sels[j1][x] - table[2].sels[j2][x]

\* C9, amended: an ee line is written for a pathway exactly when the boltz value of the
\* PES file is ee and the pathway has exactly two points, however many pathways there
\* are, and it is, for each of E, H, G and qh-G, the percentage of the first point of
\* that pathway minus the percentage of its second point
C9_BetweenPoints ==
  \A i \in 1..Len(table) :
    table[i].exc = "none" =>
      /\ table[i].ee # <<>> <=> (PES.boltz = Str("ee") /\ Len(pesfile.pes[i]) = 2)
      /\ table[i].ee # <<>> =>
           \A x \in 1..4 : table[i].ee[1][x] = table[i].sels[1][x] - table[i].sels[2][x]

\* the ee line of a pathway of two points with different percentages has been written,
\* in a run with a single pathway
C9_Witness ==
  /\ pc = "done"
  /\ Len(pesfile.pes) = 1
  /\ table[1].ee # <<>>
  /\ table[1].ee[1][1] # 0
  /\ table[1].ee[1][4] # 0

\* the Boltzmann weight exp(-relative/(R*T)) of a tabulated point, for quantity x
Weight(row, x) ==
  exp(Div(Div(Mul(0 - Tracked(row.relative)[x], j_to_au), GAS_CONSTANT), options.temperature))

\* C10: the percentages written for the points of a pathway are, for each of E, H, G
\* and qh-G, 100 times the weight exp(-relative/(R*T)) of the point over the sum of the
\* weights of the points of that pathway; each lies between 0 and 100 and those of a
\* pathway add up to 100, less at most the rounding of one weight per point
C10_PathPercentages ==
  \A i \in 1..Len(table) :
    table[i].exc = "none" /\ PES.boltz # PyFalse =>
      /\ Len(table[i].sels) = Len(table[i].rows)
      /\ \A x \in 1..4 :
           LET total == sum([j \in DOMAIN table[i].rows |-> Weight(table[i].rows[j], x)])
               pct == [j \in DOMAIN table[i].sels |-> table[i].sels[j][x]]
           IN /\ \A j \in DOMAIN pct :
                   /\ pct[j] = 100 * Div(Weight(table[i].rows[j], x), total)
                   /\ 0 <= pct[j]
                   /\ pct[j] <= 100 * FP
              /\ sum(pct) <= 100 * FP
              /\ sum(pct) > 100 * FP - 100 * Len(pct)

\* the percentages of the second of two pathways have been written, and they differ
C10_Witness ==
  /\ Len(table) = 2
  /\ table[2].exc = "none"
  /\ Len(table[2].sels) = 2
  /\ table[2].sels[1][1] > 0
  /\ table[2].sels[1][1] < table[2].sels[2][1]
  /\ table[1].sels # <<>>

\* C11: every ee written lies between -100 and 100, for each of E, H, G and qh-G
C11_EEBounded ==
  \A i \in 1..Len(table) :
    table[i].ee # <<>> =>
      \A x \in 1..4 : 0 - 100 * FP <= table[i].ee[1][x] /\ table[i].ee[1][x] <= 100 * FP

\* an ee beyond 50 in size has been written for the second of two pathways
C11_Witness ==
  /\ Len(table) = 2
  /\ table[2].ee # <<>>
  /\ \E x \in 1..4 : table[2].ee[1][x] < 0 - 50 * FP \/ table[2].ee[1][x] > 50 * FP

\* C12: a tabulated point whose combination is the one of the zero line has the
\* relative value 0 for each of E, ZPE, H, T.S, T.qh-S, G and qh-G, in atomic units and
\* in the units of the table
C12_ZeroPointIsZero ==
  \A i \in 1..Len(table) :
    \A j \in 1..Len(table[i].rows) :
      table[i].rows[j].species = pesfile.zero =>
        /\ \A x \in 2..8 : table[i].rows[j].relative[x] = 0
        /\ \A x \in 1..Len(table[i].rows[j].formatted_list) :
             table[i].rows[j].formatted_list[x] = 0

\* the zero point has been tabulated beside another point, once for a zero line of two
\* structures and once for a zero line that is a list of two conformers
C12_Witness ==
  /\ pc = "done"
  /\ \E i \in 1..Len(table) : \E j, k \in 1..Len(table[i].rows) :
       /\ table[i].rows[j].species = pesfile.zero
       /\ table[i].rows[k].relative[2] # 0
  /\ \/ pesfile.zero = <<"A", "C">>
     \/ pesfile.zero = <<"B">> /\ PES.species_dict["B"].list
                               /\ Len(PES.species_dict["B"].files) = 2

\* the offsets added to the absolute values
Offsets == {0 - 700, 300}

\* the quantities q, each plus c
ShiftQuantities(q, c) == [x \in DOMAIN q |-> q[x] + c]

\* the PES object with c added to every absolute quantity of the zero and of the points
Shifted(pes, c) ==
  [pes EXCEPT !.zero = ShiftQuantities(pes.zero, c),
              !.abs = [n \in DOMAIN pes.abs |->
                         [j \in DOMAIN pes.abs[n] |-> ShiftQuantities(pes.abs[n][j], c)]]]

\* C13: the relative values of a point are its absolute values (the entropies times the
\* temperature) minus those of the zero, quantity by quantity, and they are the same
\* when one offset is added to every absolute quantity of the points and of the zero
C13_PlainSubtraction ==
  SpeciesRead =>
    \A n \in 1..Len(PES.abs) : \A j \in 1..Len(PES.abs[n]) :
      /\ \A x \in 1..8 :
           Relative(PES, n, j, options.temperature)[x] =
             ValueList(PES.abs[n][j], options.temperature)[x]
             - ValueList(PES.zero, options.temperature)[x]
      /\ \A c \in Offsets :
           Relative(Shifted(PES, c), n, j, options.temperature) =
             Relative(PES, n, j, options.temperature)
      /\ (n <= Len(table) /\ j <= Len(table[n].rows)) =>
           table[n].rows[j].relative = Relative(PES, n, j, options.temperature)

\* a single pathway of two points with different relative energies has been tabulated
\* without percentages
C13_Witness ==
  /\ pc = "done"
  /\ PES.boltz = PyFalse
  /\ Len(table) = 1
  /\ Len(table[1].rows) = 2
  /\ table[1].rows[1].relative[2] # table[1].rows[2].relative[2]
  /\ PES.zero.e # 0

\* the quantities the absolute values are made of, without the single point energy
AbsoluteQuantities == {"e", "zpe", "h", "ts", "qhts", "g", "qhg"}

\* the Boltzmann factors exp(-(g - g_min)/(R*T)) of a list of qh-Gibbs energies
GroupFactors(gs) ==
  [k \in DOMAIN gs |->
     exp(Div(Div(Mul(0 - (gs[k] - Min({gs[m] : m \in DOMAIN gs})), j_to_au), GAS_CONSTANT),
             options.temperature))]

\* quantity q of one structure of the dictionary: that of its result, or for a list of
\* conformers the average of their results weighted by their Boltzmann factors
FragmentValue(structure, q) ==
  LET entry == PES.species_dict[structure]
  IN IF ~entry.list
     THEN Quantities(bbe_vals[entry.file])[q]
     ELSE LET fac == GroupFactors([k \in DOMAIN entry.files |->
                                     bbe_vals[entry.files[k]].qh_gibbs_free_energy])
          IN sum([k \in DOMAIN entry.files |->
                    Div(Mul(Quantities(bbe_vals[entry.files[k]])[q], fac[k]), sum(fac))])

\* quantity q of a combination: the sum over its structures
CombinationValue(combination, q) ==
  sum([k \in DOMAIN combination |-> FragmentValue(combination[k], q)])

\* get_pes has returned the PES object and nothing is tabulated yet
GetPesReturned == pc = "pes_table" /\ table = <<>>

\* C14: in the PES object that get_pes returns, each absolute quantity of the zero and
\* of every point is the sum over the structures of its combination of the value of the
\* structure, that of its result or the Boltzmann weighted average over its list of
\* conformers; the points are those of the PES block, in their order
C14_SumOfFragments ==
  GetPesReturned =>
    /\ Len(PES.abs) = Len(pesfile.pes)
    /\ \A q \in AbsoluteQuantities :
         /\ PES.zero[q] = CombinationValue(pesfile.zero, q)
         /\ \A n \in 1..Len(PES.abs) :
              /\ PES.species[n] = pesfile.pes[n]
              /\ Len(PES.abs[n]) = Len(pesfile.pes[n])
              /\ \A j \in 1..Len(PES.abs[n]) :
                   PES.abs[n][j][q] = CombinationValue(PES.species[n][j], q)

\* a point of two structures and a point that is a list of two conformers have been
\* resolved against a zero of two structures
C14_Witness ==
  /\ GetPesReturned
  /\ pesfile.zero = <<"A", "C">>
  /\ \E n \in 1..Len(PES.species) : \E j \in 1..Len(PES.species[n]) :
       PES.species[n][j] = <<"A", "C">>
  /\ \E n \in 1..Len(PES.species) : \E j \in 1..Len(PES.species[n]) :
       /\ PES.species[n][j] = <<"B">>
       /\ PES.species_dict["B"].list
       /\ Len(PES.species_dict["B"].files) = 2
       /\ PES.abs[n][j].e # bbe_vals[2].scf_energy
       /\ PES.abs[n][j].e # bbe_vals[3].scf_energy

(***************************************************************************)
(* Properties of the Boltzmann factors of main(), checked under Spec.      *)
(***************************************************************************)

\* C15: the Boltzmann factors of the structures that have a qh-Gibbs energy are
\* exp(-(g - g_min)/(R*T)): that of the most stable structure is exactly 1, every
\* normalized weight boltz_fac/boltz_sum is greater than 0 and at most 1, none is
\* greater than that of the most stable structure, and the weights add up to 1, less at
\* most the rounding of one weight per structure
C15_BoltzmannWeights ==
  (boltz.set /\ DOMAIN boltz.boltz_facs # {}) =>
    LET have == DOMAIN boltz.boltz_facs
        g == [i \in have |-> bbe_vals[i].qh_gibbs_free_energy]
        weight == [i \in 1..Len(bbe_vals) |->
                     IF i \in have THEN Div(boltz.boltz_facs[i], boltz.boltz_sum) ELSE 0]
    IN /\ have = {i \in 1..Len(bbe_vals) : Complete(bbe_vals[i])}
       /\ boltz.e_min = Min({g[i] : i \in have})
       /\ boltz.boltz_sum = sum([i \in 1..Len(bbe_vals) |->
                                   IF i \in have THEN boltz.boltz_facs[i] ELSE 0])
       /\ \A i \in have :
            /\ boltz.boltz_facs[i] =
                 exp(Div(Div(Mul(0 - (g[i] - boltz.e_min), j_to_au), GAS_CONSTANT),
                         options.temperature))
            /\ g[i] = boltz.e_min => boltz.boltz_facs[i] = FP
            /\ 0 < weight[i] /\ weight[i] <= FP
            /\ \A k \in have : g[k] = boltz.e_min => weight[i] <= weight[k]
       /\ sum(weight) <= FP
       /\ sum(weight) > FP - Cardinality(have)

\* the factors of two structures of different qh-Gibbs energies have been computed
C15_Witness ==
  /\ boltz.set
  /\ DOMAIN boltz.boltz_facs = {1, 2}
  /\ boltz.boltz_facs[1] = FP
  /\ boltz.boltz_facs[2] < FP
  /\ boltz.boltz_facs[2] > 0

(***************************************************************************)
(* Properties of the average over an ensemble of conformers, checked under *)
(* SpecConformers.                                                         *)
(***************************************************************************)

\* the qh-Gibbs energies of the conformers of the ensemble G
EnsembleEnergies ==
  [k \in DOMAIN PES.species_dict["G"].files |->
     bbe_vals[PES.species_dict["G"].files[k]].qh_gibbs_free_energy]

\* avg is at most the arithmetic mean of gs and at least its minimum, up to the
\* rounding of one unit of the arithmetic for each conformer
BetweenMinAndMean(avg, gs) ==
  /\ Len(gs) * avg <= sum(gs)
  /\ avg >= Min({gs[k] : k \in DOMAIN gs}) - Len(gs)

\* C16: the Boltzmann weighted average of the qh-Gibbs energies of an ensemble of
\* conformers, as get_pes computes it for the zero and for a point, is at most the
\* arithmetic mean of these energies and at least the lowest of them
C16_AverageBelowMean ==
  GetPesReturned =>
    /\ PES.species_dict["G"].list
    /\ Len(EnsembleEnergies) = Len(files)
    /\ BetweenMinAndMean(PES.zero.qhg, EnsembleEnergies)
    /\ BetweenMinAndMean(PES.abs[1][1].qhg, EnsembleEnergies)

\* the average over three conformers of different energies lies strictly between the
\* lowest energy and the mean
C16_Witness ==
  /\ GetPesReturned
  /\ Len(EnsembleEnergies) = 3
  /\ Cardinality({EnsembleEnergies[k] : k \in 1..3}) = 3
  /\ 3 * PES.abs[1][1].qhg < sum(EnsembleEnergies) - 3
  /\ PES.abs[1][1].qhg > Min({EnsembleEnergies[k] : k \in 1..3})
  /\ PES.zero.qhg = PES.abs[1][1].qhg

(***************************************************************************)
(* Properties of the quasi-harmonic entropy, checked under SpecQH.         *)
(***************************************************************************)

\* the file of the run has been evaluated
Evaluated == pc = "eval" /\ Len(bbe_vals) = 1

\* the real frequencies of the file of the run
RealFrequencies == SelectSeq(files[1].freqs, LAMBDA x : x > 0)

\* the entropy of the file of the run when modes are the vibrational entropies of its
\* real frequencies
EntropyWith(modes) ==
  Div(calc_translational_entropy(files[1].molecular_mass, options.conc,
                                 options.temperature, options.solv)
      + RotationalEntropy(files[1], bbe_vals[1], options.temperature)
      + (IF modes = <<>> THEN 0 ELSE sum(modes))
      + calc_electronic_entropy(files[1].mult), j_to_au)

\* the RRHO entropy of one mode
RRHO(freq, scale) == calc_rrho_entropy(<<freq>>, options.temperature, scale)[1]

\* the RRHO entropy of each mode above the cutoff and, for the others, that of a mode at
\* the cutoff evaluated with the scale factor cutoff_scale
TruhlarModes(cutoff_scale) ==
  [j \in 1..Len(RealFrequencies) |->
     IF RealFrequencies[j] > options.freq_cutoff
     THEN RRHO(RealFrequencies[j], options.freq_scale_factor)
     ELSE RRHO(options.freq_cutoff, cutoff_scale)]

\* C17 as stated: under truhlar with a cutoff above zero, the quasi-harmonic entropy is
\* made of the RRHO entropy of every mode above the cutoff and of the RRHO entropy of a
\* mode at the cutoff for the others, both evaluated with the scale factor of the run
C17_CutoffWithRunScale ==
  (Evaluated /\ options.QH = "truhlar" /\ options.freq_cutoff > 0) =>
    bbe_vals[1].qh_entropy = EntropyWith(TruhlarModes(options.freq_scale_factor))

\* C17: under truhlar with a cutoff above zero, the quasi-harmonic entropy is made of
\* the RRHO entropy, with the scale factor of the run, of every mode strictly above the
\* cutoff, and for every other mode of the RRHO entropy of the cutoff frequency with the
\* scale factor 1.0
C17_CutoffUnscaled ==
  (Evaluated /\ options.QH = "truhlar" /\ options.freq_cutoff > 0) =>
    /\ bbe_vals[1].qh_entropy = EntropyWith(TruhlarModes(FP))
    /\ bbe_vals[1].qh_gibbs_free_energy =
         bbe_vals[1].enthalpy - Mul(options.temperature, bbe_vals[1].qh_entropy)

\* a scaled run under truhlar over a mode at the cutoff and a mode above it, where the
\* scale factor of the cutoff entropy makes a difference
C17_Witness ==
  /\ Evaluated
  /\ options.QH = "truhlar"
  /\ options.freq_scale_factor = 900
  /\ \E j \in 1..Len(RealFrequencies) : RealFrequencies[j] = options.freq_cutoff
  /\ \E j \in 1..Len(RealFrequencies) : RealFrequencies[j] > options.freq_cutoff
  /\ EntropyWith(TruhlarModes(FP)) # EntropyWith(TruhlarModes(900))

\* C18: under truhlar with the cutoff 0, whatever the frequencies, the temperature and
\* the scale factor, the quasi-harmonic entropy is the harmonic entropy and the
\* quasi-harmonic Gibbs energy is the Gibbs energy, exactly
C18_ZeroCutoffIsHarmonic ==
  (Evaluated /\ options.QH = "truhlar" /\ options.freq_cutoff = 0) =>
    /\ bbe_vals[1].qh_entropy = bbe_vals[1].entropy
    /\ bbe_vals[1].qh_gibbs_free_energy = bbe_vals[1].gibbs_free_energy

\* a scaled run under truhlar without a cutoff, at the higher temperature, over two real
\* frequencies whose vibrational entropy counts in the entropy
C18_Witness ==
  /\ Evaluated
  /\ options.QH = "truhlar"
  /\ options.freq_cutoff = 0
  /\ options.freq_scale_factor = 900
  /\ options.temperature = 2 * FP
  /\ Len(RealFrequencies) = 2
  /\ RealFrequencies[1] # RealFrequencies[2]
  /\ bbe_vals[1].qh_entropy # EntropyWith(<<>>)

\* the free rotor entropy of one mode
FreeRotor(freq, scale) == calc_freerot_entropy(<<freq>>, options.temperature, scale)[1]

\* the value of the damping function for one mode
Damp(freq) == calc_damp(<<freq>>, options.freq_cutoff)[1]

\* RRHO * damp + (1 - damp) * free rotor, for mode j of the file of the run
Interpolated(j) ==
  LET freq == RealFrequencies[j]
  IN Mul(RRHO(freq, options.freq_scale_factor), Damp(freq))
     + Mul(FP - Damp(freq), FreeRotor(freq, options.freq_scale_factor))

\* the greater and the lesser of two numbers
Greater(a, b) == IF a >= b THEN a ELSE b
Lesser(a, b) == IF a <= b THEN a ELSE b

\* v lies between a and b, up to the rounding of the two products of the interpolation
Between(v, a, b) == Lesser(a, b) - 1 <= v /\ v <= Greater(a, b)

\* the RRHO and the free rotor entropy of mode j differ by more than the arithmetic
\* loses once they are weighted by damp and 1 - damp
Resolved(j) ==
  LET freq == RealFrequencies[j]
      r == RRHO(freq, options.freq_scale_factor)
      f == FreeRotor(freq, options.freq_scale_factor)
  IN Mul(Greater(r, f) - Lesser(r, f), Lesser(Damp(freq), FP - Damp(freq))) >= 2

\* C19: under grimme with a cutoff above zero, the quasi-harmonic entropy is made, for
\* every mode, of RRHO * damp + (1 - damp) * free rotor, with no threshold; this value
\* lies between the RRHO and the free rotor entropy of the mode, and strictly between
\* them when they differ by more than the rounding of the arithmetic
C19_GrimmeInterpolates ==
  (Evaluated /\ options.QH = "grimme" /\ options.freq_cutoff > 0) =>
    /\ bbe_vals[1].qh_entropy =
         EntropyWith([j \in 1..Len(RealFrequencies) |-> Interpolated(j)])
    /\ \A j \in 1..Len(RealFrequencies) :
         LET r == RRHO(RealFrequencies[j], options.freq_scale_factor)
             f == FreeRotor(RealFrequencies[j], options.freq_scale_factor)
         IN /\ Between(Interpolated(j), r, f)
            /\ Resolved(j) => Lesser(r, f) < Interpolated(j) /\ Interpolated(j) < Greater(r, f)

\* a run under grimme over a mode at half the cutoff and a mode above the cutoff, both
\* with an entropy strictly between the RRHO and the free rotor entropy, the RRHO
\* entropy being the greater for the first and the lesser for the second
C19_Witness ==
  /\ Evaluated
  /\ options.QH = "grimme"
  /\ options.freq_cutoff = FP
  /\ RealFrequencies = <<500, 2000>>
  /\ Resolved(1) /\ Resolved(2)
  /\ FreeRotor(500, options.freq_scale_factor) < Interpolated(1)
  /\ Interpolated(1) < RRHO(500, options.freq_scale_factor)
  /\ RRHO(2000, options.freq_scale_factor) < Interpolated(2)
  /\ Interpolated(2) < FreeRotor(2000, options.freq_scale_factor)
  /\ bbe_vals[1].qh_entropy # bbe_vals[1].entropy

\* the list calc_bbe gets from calc_damp for the file of the run
DampList == calc_damp(RealFrequencies, options.freq_cutoff)

\* C20: for a cutoff above zero, the values of calc_damp over the real frequencies of a
\* file lie strictly between 0 and 1, a greater frequency has a strictly greater value,
\* and a frequency equal to the cutoff has the value 0.5
C20_DampIncreasing ==
  (Evaluated /\ options.freq_cutoff > 0) =>
    /\ Len(DampList) = Len(RealFrequencies)
    /\ \A j \in 1..Len(DampList) :
         /\ 0 < DampList[j] /\ DampList[j] < FP
         /\ RealFrequencies[j] = options.freq_cutoff => 2 * DampList[j] = FP
         /\ \A k \in 1..Len(DampList) :
              RealFrequencies[j] < RealFrequencies[k] => DampList[j] < DampList[k]

\* the damping of a mode at the cutoff and of a mode above it, as they enter the
\* quasi-harmonic entropy of a run under grimme
C20_Witness ==
  /\ Evaluated
  /\ options.QH = "grimme"
  /\ options.freq_cutoff = 500
  /\ RealFrequencies = <<500, 1000>>
  /\ DampList[1] = 500
  /\ DampList[2] > 500
  /\ bbe_vals[1].qh_entropy # bbe_vals[1].entropy

(***************************************************************************)
(* Properties of the energy and entropy terms, checked under SpecBBE.      *)
(***************************************************************************)

\* the translational and electronic entropy of file i
TransElecEntropy(i) ==
  calc_translational_entropy(files[i].molecular_mass, options.conc, options.temperature,
                             options.solv)
  + calc_electronic_entropy(files[i].mult)

\* file i has a zero-point correction and no real frequency
NoRealFrequency(i) ==
  files[i].zpc_line /\ SelectSeq(files[i].freqs, LAMBDA x : x > 0) = <<>>

\* C21: for a file with a zero-point correction and no real frequency, under both
\* methods and any cutoff, zpe is 0, the entropy is made of the translational and the
\* electronic term only, the thermal energy of the translational term and R*T only, and
\* the quasi-harmonic entropy and Gibbs energy are the harmonic ones
C21_NoFrequencies ==
  \A i \in 1..Len(bbe_vals) :
    NoRealFrequency(i) =>
      /\ Complete(bbe_vals[i])
      /\ bbe_vals[i].zpe = 0
      /\ bbe_vals[i].entropy = Div(TransElecEntropy(i), j_to_au)
      /\ EvalWithoutSp(files[i]).enthalpy =
           files[i].scf_energy
           + Div(calc_translational_energy(options.temperature)
                 + Mul(GAS_CONSTANT, options.temperature), j_to_au)
      /\ bbe_vals[i].qh_entropy = bbe_vals[i].entropy
      /\ bbe_vals[i].qh_gibbs_free_energy = bbe_vals[i].gibbs_free_energy

\* a file with an imaginary frequency only, a non-zero zero-point correction and three
\* rotational temperatures, evaluated under grimme with a cutoff
C21_Witness ==
  \E i \in 1..Len(bbe_vals) :
    /\ NoRealFrequency(i)
    /\ files[i].freqs # <<>>
    /\ files[i].zero_point_corr # 0
    /\ files[i].rot.kind = "triple"
    /\ options.QH = "grimme"
    /\ options.freq_cutoff > 0
    /\ bbe_vals[i].zpe = 0

\* file i has a non-zero zero-point correction and a real frequency, so that its
\* rotational terms are computed
Rotating(i) ==
  /\ files[i].zpc_line
  /\ files[i].zero_point_corr # 0
  /\ SelectSeq(files[i].freqs, LAMBDA x : x > 0) # <<>>

\* the point group of file i is one of a linear molecule
LinearFlag(i) == files[i].point_group \in {"D*H", "C*V"}

\* the entropy of file i when its rotational entropy is Srot
EntropyWithSrot(i, Srot) ==
  Div(TransElecEntropy(i) + Srot
      + sum(calc_rrho_entropy(SelectSeq(files[i].freqs, LAMBDA x : x > 0),
                              options.temperature, options.freq_scale_factor)),
      j_to_au)

\* T/Theta for the first rotational temperature of file i
QrotOne(i) == Div(options.temperature, files[i].rot.vals[1])

\* sqrt(pi*T^3/(Theta1*Theta2*Theta3)) for the rotational temperatures of file i
QrotThree(i) ==
  sqrt(Div(Mul(PI_FP, Cube(options.temperature)),
           Mul(Mul(files[i].rot.vals[1], files[i].rot.vals[2]), files[i].rot.vals[3])))

\* R*(ln(q/sigma) + 1) and R*(ln(q/sigma) + 1.5) for file i
LinearFormula(i, qrot) == Mul(GAS_CONSTANT, log(qrot \div files[i].symmno) + FP)
NonLinearFormula(i, qrot) == Mul(GAS_CONSTANT, log(qrot \div files[i].symmno) + 1500)

\* C22 as stated: the rotational entropy is chosen by the number of rotational
\* temperatures alone: the linear formula for one, zero for two and, whatever the point
\* group, the formula with the constant 1.5 for three
C22_ByCountAlone ==
  \A i \in 1..Len(bbe_vals) :
    Rotating(i) =>
      /\ files[i].rot.kind = "single" =>
           bbe_vals[i].entropy = EntropyWithSrot(i, LinearFormula(i, QrotOne(i)))
      /\ files[i].rot.kind = "stars" => bbe_vals[i].entropy = EntropyWithSrot(i, 0)
      /\ files[i].rot.kind = "triple" =>
           bbe_vals[i].entropy = EntropyWithSrot(i, NonLinearFormula(i, QrotThree(i)))

\* C22: the rotational entropy is the linear formula for one rotational temperature and
\* zero for two; for three it is the formula with the constant 1.5 unless the point
\* group is that of a linear molecule, in which case the constant is 1 with the qrot of
\* three temperatures
C22_ByCountAndFlag ==
  \A i \in 1..Len(bbe_vals) :
    Rotating(i) =>
      /\ files[i].rot.kind = "single" =>
           bbe_vals[i].entropy = EntropyWithSrot(i, LinearFormula(i, QrotOne(i)))
      /\ files[i].rot.kind = "stars" => bbe_vals[i].entropy = EntropyWithSrot(i, 0)
      /\ (files[i].rot.kind = "triple" /\ ~LinearFlag(i)) =>
           bbe_vals[i].entropy = EntropyWithSrot(i, NonLinearFormula(i, QrotThree(i)))
      /\ (files[i].rot.kind = "triple" /\ LinearFlag(i)) =>
           bbe_vals[i].entropy = EntropyWithSrot(i, LinearFormula(i, QrotThree(i)))

\* a file with three rotational temperatures and the point group of a linear molecule,
\* whose entropy is not the one the constant 1.5 gives
C22_Witness ==
  \E i \in 1..Len(bbe_vals) :
    /\ Rotating(i)
    /\ files[i].rot.kind = "triple"
    /\ LinearFlag(i)
    /\ bbe_vals[i].entropy # EntropyWithSrot(i, NonLinearFormula(i, QrotThree(i)))
    /\ bbe_vals[i].entropy = EntropyWithSrot(i, LinearFormula(i, QrotThree(i)))

(***************************************************************************)
(* Further properties of the average over an ensemble of conformers,       *)
(* checked under SpecConformers.                                           *)
(***************************************************************************)

\* the results of the conformers of the ensemble G
EnsembleResults ==
  [k \in DOMAIN PES.species_dict["G"].files |-> bbe_vals[PES.species_dict["G"].files[k]]]

\* quantity q of the ensemble G: the sum of the values of the conformers, each weighted
\* by the normalised Boltzmann factor of its qh-Gibbs energy
EnsembleAverage(q) ==
  LET fac == GroupFactors(EnsembleEnergies)
  IN sum([k \in DOMAIN EnsembleResults |->
            Div(Mul(Quantities(EnsembleResults[k])[q], fac[k]), sum(fac))])

\* C23: every quantity get_pes aggregates over a list of conformers, for the zero and
\* for a point, is the sum of the values of the conformers weighted by one factor, the
\* normalised Boltzmann factor of the qh-Gibbs energy relative to the lowest one; a list
\* of one conformer aggregates to the values of that conformer
C23_OneFactorForAll ==
  GetPesReturned =>
    \A q \in AbsoluteQuantities :
      /\ PES.abs[1][1][q] = EnsembleAverage(q)
      /\ PES.zero[q] = EnsembleAverage(q)
      /\ Len(EnsembleResults) = 1 => PES.abs[1][1][q] = Quantities(bbe_vals[1])[q]

\* two conformers of different frequencies whose harmonic Gibbs energies are ranked the
\* other way round than their qh-Gibbs energies, and whose average entropy lies strictly
\* between their entropies
C23_Witness ==
  /\ GetPesReturned
  /\ Len(EnsembleResults) = 2
  /\ bbe_vals[1].qh_gibbs_free_energy < bbe_vals[2].qh_gibbs_free_energy
  /\ bbe_vals[1].gibbs_free_energy > bbe_vals[2].gibbs_free_energy
  /\ bbe_vals[1].entropy < PES.abs[1][1].ts
  /\ PES.abs[1][1].ts < bbe_vals[2].entropy

\* the result of file i as the loop of main() computes it
Evaluation(i) ==
  calc_bbe(files[i], options.QH, options.freq_cutoff, options.temperature, options.conc,
           options.freq_scale_factor, options.solv, options.spc)

\* the Boltzmann pass of main() or get_pes has started
Aggregating == boltz.set \/ pesfile # <<>> \/ PES # NoPES \/ table # <<>>

\* C24: when the Boltzmann pass or get_pes has started, every file of the run has been
\* evaluated and its result is stored, and the Boltzmann factors are those of stored
\* results
C24_AfterAllEvaluated ==
  /\ Aggregating =>
       /\ Len(bbe_vals) = Len(files)
       /\ \A i \in 1..Len(files) : bbe_vals[i] = Evaluation(i)
  /\ boltz.set => DOMAIN boltz.boltz_facs \subseteq 1..Len(bbe_vals)
  /\ pc \in {"table", "pes_species", "pes_zero", "pes_paths", "pes_table"} =>
       Len(bbe_vals) = Len(files)

\* a run with Boltzmann factors over MaxFiles conformers in which get_pes has resolved
\* the point of the PES file
C24_Witness ==
  /\ Len(files) = MaxFiles
  /\ boltz.set
  /\ DOMAIN boltz.boltz_facs = 1..MaxFiles
  /\ GetPesReturned
  /\ Len(PES.abs) = 1

\* C25: once the results of all the files are collected, no step of the run (Boltzmann
\* factors, rows of the table, get_pes, table of the pathways) changes them, and the
\* stored result of every file is the one its evaluation with the options of the run
\* gives again
C25_ResultsReadOnly ==
  [][(pc # "start" /\ Len(bbe_vals) = Len(files)) =>
       /\ bbe_vals' = bbe_vals
       /\ \A i \in 1..Len(files) : bbe_vals'[i] = Evaluation(i)]_vars

\* a run over MaxFiles files that went through the Boltzmann factors, the rows of the
\* table, get_pes and the table of the pathways, its stored results still the evaluation
\* of its files
C25_Witness ==
  /\ pc = "done"
  /\ Len(files) = MaxFiles
  /\ boltz.set
  /\ Len(output) = MaxFiles
  /\ PES # NoPES
  /\ table # <<>>
  /\ \A i \in 1..Len(files) : bbe_vals[i] = Evaluation(i)

\* the enthalpy of file i when its rotational energy is Urot
EnthalpyWithUrot(i, Urot) ==
  files[i].scf_energy
  + Div(calc_translational_energy(options.temperature) + Urot
        + calc_vibrational_energy(SelectSeq(files[i].freqs, LAMBDA x : x > 0),
                                  options.temperature, options.freq_scale_factor)
        + Mul(GAS_CONSTANT, options.temperature), j_to_au)

\* the rotational energy of file i is R*T, or 1.5*R*T
LinearEnergy(i) ==
  bbe_vals[i].enthalpy = EnthalpyWithUrot(i, Mul(GAS_CONSTANT, options.temperature))
NonLinearEnergy(i) ==
  bbe_vals[i].enthalpy =
    EnthalpyWithUrot(i, Mul(Mul(1500, GAS_CONSTANT), options.temperature))

\* the rotational entropy of file i is the linear formula R*(ln(q/sigma) + 1), or the
\* non-linear formula R*(ln(q/sigma) + 1.5) of three rotational temperatures
LinearEntropy(i) ==
  \/ /\ files[i].rot.kind = "single"
     /\ bbe_vals[i].entropy = EntropyWithSrot(i, LinearFormula(i, QrotOne(i)))
  \/ /\ files[i].rot.kind = "triple"
     /\ bbe_vals[i].entropy = EntropyWithSrot(i, LinearFormula(i, QrotThree(i)))
NonLinearEntropy(i) ==
  /\ files[i].rot.kind = "triple"
  /\ bbe_vals[i].entropy = EntropyWithSrot(i, NonLinearFormula(i, QrotThree(i)))

\* C26: for every point group and number of rotational temperatures, the rotational
\* energy of a file is R*T exactly when its rotational entropy is the linear formula,
\* and 1.5*R*T exactly when it is the non-linear formula
C26_LinearityAgrees ==
  \A i \in 1..Len(bbe_vals) :
    Rotating(i) =>
      /\ LinearEnergy(i) <=> LinearEntropy(i)
      /\ NonLinearEnergy(i) <=> NonLinearEntropy(i)

\* a file with one rotational temperature and a point group that is not linear has the
\* rotational energy 1.5*R*T and the linear rotational entropy
C26_Disagreement ==
  \E i \in 1..Len(bbe_vals) :
    /\ Rotating(i)
    /\ files[i].rot.kind = "single"
    /\ ~LinearFlag(i)
    /\ NonLinearEnergy(i) /\ ~LinearEnergy(i)
    /\ LinearEntropy(i)

(***************************************************************************)
(* Properties of the scan of a file of linked jobs, checked under          *)
(* SpecLinks.                                                              *)
(***************************************************************************)

\* the last job of the file of the run that has frequencies, 0 if none has
FinalFrequencyJob ==
  LET with == {k \in DOMAIN files[1].jobs : files[1].jobs[k] # <<>>}
  IN IF with = {} THEN 0 ELSE CHOOSE k \in with : \A m \in with : m <= k

\* the frequencies of the final frequency job
FinalFrequencies ==
  IF FinalFrequencyJob = 0 THEN <<>> ELSE files[1].jobs[FinalFrequencyJob]

\* C27: after the scan of a file of linked jobs the real frequencies kept are strictly
\* positive, the imaginary frequencies kept are strictly negative, and both are those
\* of the final frequency job
C27_SameJob ==
  Evaluated =>
    /\ \A j \in 1..Len(bbe_vals[1].frequency_wn) : bbe_vals[1].frequency_wn[j] > 0
    /\ \A j \in 1..Len(bbe_vals[1].im_freq) : bbe_vals[1].im_freq[j] < 0
    /\ bbe_vals[1].frequency_wn = SelectSeq(FinalFrequencies, LAMBDA x : x > 0)
    /\ bbe_vals[1].im_freq = SelectSeq(FinalFrequencies, LAMBDA x : x < 0)

\* a file of two frequency jobs, the first with an imaginary frequency and the second
\* without: the real frequencies kept are those of the second job, and the imaginary
\* frequency of the first job is kept with them
C27_StaleImaginary ==
  /\ Evaluated
  /\ files[1].jobs = <<<<0 - 500, 500>>, <<250, 2000>>>>
  /\ bbe_vals[1].frequency_wn = <<250, 2000>>
  /\ bbe_vals[1].im_freq = <<0 - 500>>

(***************************************************************************)
(* Properties of the solvent option, checked under SpecSolvent.            *)
(***************************************************************************)

\* the solvents named by the help of the -s option
NamedSolvents == {"H2O", "toluene", "DMF", "AcOH", "chloroform"}

\* the result of file i when the run has no solvent
EvaluationWithoutSolvent(i) ==
  calc_bbe(files[i], options.QH, options.freq_cutoff, options.temperature, options.conc,
           options.freq_scale_factor, "none", options.spc)

\* C28: a solvent name other than none and the five named solvents is not rejected: its
\* free space is 1000.0 as for none, the run neither ends in log.Fatal nor raises an
\* exception, and every result is the one of a run without solvent; each of the five
\* named solvents has a free space other than 1000.0
C28_UnknownSolventAsNone ==
  /\ \A s \in NamedSolvents : get_free_space(s) # get_free_space("none")
  /\ options.solv \notin NamedSolvents =>
       /\ get_free_space(options.solv) = 1000 * FP
       /\ pc \notin {"fatal", "crashed", "exited"}
       /\ err = NoError
       /\ \A i \in 1..Len(bbe_vals) : bbe_vals[i] = EvaluationWithoutSolvent(i)

\* a finished run with a solvent name that is not in the table, and what the same files
\* would give with a solvent of the table
C28_Witness ==
  /\ pc = "done"
  /\ options.solv = "water"
  /\ Len(bbe_vals) = MaxFiles
  /\ hasattr(bbe_vals[1], "entropy")
  /\ bbe_vals[1].entropy #
       calc_bbe(files[1], options.QH, options.freq_cutoff, options.temperature,
                options.conc, options.freq_scale_factor, "toluene", options.spc).entropy

(***************************************************************************)
(* Properties of the total CPU time, checked under SpecCpu.                *)
(***************************************************************************)

\* the whole seconds of the sum of the CPU times of the files
SumOfCpuTimes ==
  sum([i \in DOMAIN files |->
         bbe_vals[i].cpu[1] * 86400 + bbe_vals[i].cpu[2] * 3600
         + bbe_vals[i].cpu[3] * 60 + bbe_vals[i].cpu[4]])
  + sum([i \in DOMAIN files |-> bbe_vals[i].cpu[5]]) \div 1000

\* the seconds the TOTAL CPU line stands for
PrintedSeconds ==
  checks.total_cpu[1] * 86400 + checks.total_cpu[2] * 3600
  + checks.total_cpu[3] * 60 + checks.total_cpu[4]

\* the TOTAL CPU line is written
CpuReported == pc \in {"close", "done"} /\ options.cputime

\* C29: with --cpu the days, hours, minutes and seconds of the TOTAL CPU line are the sum
\* of the CPU times of all the files, with hours below 24 and minutes and seconds below 60
C29_TotalIsSum ==
  CpuReported =>
    /\ PrintedSeconds = SumOfCpuTimes
    /\ checks.total_cpu[2] < 24
    /\ checks.total_cpu[3] < 60
    /\ checks.total_cpu[4] < 60

\* a run of one file of 70 days of CPU time whose TOTAL CPU line has 42 days
C29_DaysLost ==
  /\ CpuReported
  /\ Len(files) = 1
  /\ bbe_vals[1].cpu = <<70, 0, 0, 0, 0>>
  /\ checks.total_cpu = <<42, 0, 0, 0>>

\* the totals below the end of February come out right
C29_ShortTotals ==
  (CpuReported /\ SumOfCpuTimes < 59 * 86400) => PrintedSeconds = SumOfCpuTimes

(***************************************************************************)
(* Properties of the duplicate check, checked under SpecCheck.             *)
(***************************************************************************)

\* the duplicate check is over
DuplicatesChecked == pc \in {"close", "done"} /\ options.check

\* the E, ZPE, T.S and T.qh-S of file i, as its row of the table has them
OwnValues(i) ==
  <<bbe_vals[i].scf_energy, bbe_vals[i].zpe,
    Mul(options.temperature, bbe_vals[i].entropy),
    Mul(options.temperature, bbe_vals[i].qh_entropy)>>

\* the row of file i in the table has the thermochemical columns
FullRow(i) == output[i].values # <<>>

\* the four values of files i and j, both with a full row, each differ by less than the
\* threshold
OwnValuesClose(i, j) ==
  /\ FullRow(i)
  /\ FullRow(j)
  /\ \A x \in 1..4 : Close(OwnValues(i)[x], OwnValues(j)[x])

\* the pair (i, j) is named in the caution of the duplicate check
Reported(i, j) == \E k \in DOMAIN checks.duplicates : checks.duplicates[k] = <<i, j>>

\* C30: files i < j are reported as potential duplicates exactly when the E, ZPE, T.S and
\* T.qh-S of these two files each differ by less than the threshold, whatever the other
\* files of the run are
C30_OwnValuesDecide ==
  DuplicatesChecked =>
    \A i \in DOMAIN files : \A j \in DOMAIN files :
      i < j => (Reported(i, j) <=> OwnValuesClose(i, j))

\* a file without frequency information is reported as a duplicate of the file after it,
\* on the ZPE, T.S and T.qh-S of the two files that follow it
C30_OtherFilesCompared ==
  /\ DuplicatesChecked
  /\ Len(files) = 3
  /\ Partial(bbe_vals[1])
  /\ FullRow(2)
  /\ FullRow(3)
  /\ Reported(1, 2)
  /\ ~Reported(2, 3)
  /\ checks.index_error

\* in a run whose files all have a full row in the table the pairs reported are the
\* pairs with close values
C30_CompleteRuns ==
  (DuplicatesChecked /\ Len(info_duplic.ZPE_duplic) = Len(files)) =>
    \A i \in DOMAIN files : \A j \in DOMAIN files :
      i < j => (Reported(i, j) <=> OwnValuesClose(i, j))

=============================================================================
